---- MODULE Spec2Model ----
(***************************************************************************)
(* The D-Bus broker launcher (dbus-broker-launch): listener acquisition,   *)
(* broker supervision, the service registry, the controller-link dispatch  *)
(* and the messages the launcher sends to the service manager.             *)
(***************************************************************************)
EXTENDS Integers, Sequences, FiniteSets, TLC

(* ------------------------------ bounds -------------------------------- *)

\* number of entries the service directory holds at most
MaxFiles == 3

\* test_basic: the error codes tried lie in -MaxErr..MaxErr
MaxErr == 6

(* --------------------------- program constants ------------------------ *)

_MAIN_SUCCESS == 0
MAIN_EXIT == 1
MAIN_FAILED == 2

EXIT_FAILURE == 1
SD_LISTEN_FDS_START == 3
\* the descriptor socket() hands out in manager_listen_path
SOCKET_FD == 4

ENOENT == 2
ENOMEM == 12
EACCES == 13
EINVAL == 22
EADDRINUSE == 98
ETIMEDOUT == 110
ENOTRECOVERABLE == 131
\* sizeof(addr.sun_path)
SUN_PATH_MAX == 108

\* a NULL char pointer
NULL == "<null>"
\* what a read past the end of an allocation may yield besides NULL
GARBAGE == "<garbage>"

SYSTEMD1 == "org.freedesktop.systemd1"
NAME_PREFIX == "/org/bus1/DBus/Name/"
BROKER_PATH == "/org/bus1/DBus/Broker"

(* --------------------------- error disciplines ------------------------ *)

error_origin(r) == IF r < 0 THEN r ELSE IF r > 0 THEN -ENOTRECOVERABLE ELSE 0

\* a variant of error_trace that canonicalises positive codes; C14 tells the two apart
error_trace_canonical(r) == IF r > 0 THEN -ENOTRECOVERABLE ELSE r

error_trace(r) == r

\* a variant of error_fold that keeps positive codes; C15 tells the two apart
error_fold_keep(r) == IF r > 0 THEN r ELSE IF r < 0 THEN -ENOTRECOVERABLE ELSE 0

error_fold(r) == IF r < 0 THEN r ELSE IF r > 0 THEN -ENOTRECOVERABLE ELSE 0

(* ------------------------------ strings ------------------------------- *)

DigitChars == <<"0", "1", "2", "3", "4", "5", "6", "7", "8", "9">>

RECURSIVE Dec(_)
\* sprintf(id, "%" PRIu64, n)
Dec(n) == IF n < 10 THEN DigitChars[n + 1] ELSE Dec(n \div 10) \o DigitChars[(n % 10) + 1]

\* c_string_prefix(): the rest of str after prefix, NULL if str does not start with it
c_string_prefix(str, prefix) ==
    IF Len(str) >= Len(prefix) /\ SubSeq(str, 1, Len(prefix)) = prefix
    THEN SubSeq(str, Len(prefix) + 1, Len(str))
    ELSE NULL

(* ------------------------- bus message values ------------------------- *)

\* one element of a message body: a basic value or a container of elements
Str(s) == [t |-> "s", s |-> s, c |-> <<>>]
Bool(b) == [t |-> "b", s |-> IF b THEN "true" ELSE "false", c |-> <<>>]
Container(t, sig, items) == [t |-> t, s |-> sig, c |-> items]

\* no message object (a NULL sd_bus_message pointer)
NoMsg == [type |-> "none", dest |-> NULL, path |-> NULL, iface |-> NULL,
          member |-> NULL, body |-> <<>>, open |-> <<>>]

\* a message as it travels on a link
Wire(m) == [type |-> m.type, dest |-> m.dest, path |-> m.path, iface |-> m.iface,
            member |-> m.member, body |-> m.body]

\* one library call of a message-building sequence; checked = its result is tested
Step(op, checked, strs, items) ==
    [op |-> op, checked |-> checked, strs |-> strs, items |-> items]

NewCall(checked, dest, path, iface, member) ==
    Step("new_method_call", checked, <<dest, path, iface, member>>, <<>>)
NewSignal(path, iface, member) == Step("new_signal", TRUE, <<path, iface, member>>, <<>>)
AppendItems(items) == Step("append", TRUE, <<>>, items)
OpenContainer(t, sig) == Step("open_container", TRUE, <<t, sig>>, <<>>)
CloseContainer == Step("close_container", TRUE, <<>>, <<>>)
SetDestination(dest) == Step("set_destination", TRUE, <<dest>>, <<>>)
Send == Step("send", TRUE, <<>>, <<>>)
\* a call that does not touch the outgoing message (asprintf, reads of the inbound one)
Other(what) == Step(what, TRUE, <<>>, <<>>)

\* the elements appended to the innermost open container, or to the body
PutItems(m, items) ==
    IF m.open = <<>>
    THEN [m EXCEPT !.body = @ \o items]
    ELSE [m EXCEPT !.open[Len(m.open)].c = @ \o items]

\* the effect of one library call on the message under construction
Apply(st, m) ==
    CASE st.op = "new_method_call" ->
           [r |-> 0, wire |-> <<>>,
            m |-> [type |-> "method_call", dest |-> st.strs[1], path |-> st.strs[2],
                   iface |-> st.strs[3], member |-> st.strs[4], body |-> <<>>, open |-> <<>>]]
      [] st.op = "new_signal" ->
           [r |-> 0, wire |-> <<>>,
            m |-> [type |-> "signal", dest |-> NULL, path |-> st.strs[1],
                   iface |-> st.strs[2], member |-> st.strs[3], body |-> <<>>, open |-> <<>>]]
      [] st.op = "append" ->
           IF m.type = "none" \/ \E i \in 1..Len(st.items) : st.items[i] = Str(NULL)
           THEN [r |-> -EINVAL, wire |-> <<>>, m |-> m]
           ELSE [r |-> 0, wire |-> <<>>, m |-> PutItems(m, st.items)]
      [] st.op = "open_container" ->
           IF m.type = "none"
           THEN [r |-> -EINVAL, wire |-> <<>>, m |-> m]
           ELSE [r |-> 0, wire |-> <<>>,
                 m |-> [m EXCEPT !.open = Append(@, Container(st.strs[1], st.strs[2], <<>>))]]
      [] st.op = "close_container" ->
           IF m.type = "none" \/ m.open = <<>>
           THEN [r |-> -EINVAL, wire |-> <<>>, m |-> m]
           ELSE [r |-> 0, wire |-> <<>>,
                 m |-> PutItems([m EXCEPT !.open = SubSeq(@, 1, Len(@) - 1)],
                                <<m.open[Len(m.open)]>>)]
      [] st.op = "set_destination" ->
           IF m.type = "none"
           THEN [r |-> -EINVAL, wire |-> <<>>, m |-> m]
           ELSE [r |-> 0, wire |-> <<>>, m |-> [m EXCEPT !.dest = st.strs[1]]]
      [] st.op = "send" ->
           IF m.type = "none" \/ m.open # <<>>
           THEN [r |-> -EINVAL, wire |-> <<>>, m |-> m]
           ELSE [r |-> 1, wire |-> <<Wire(m)>>, m |-> m]
      [] OTHER -> [r |-> 0, wire |-> <<>>, m |-> m]

RECURSIVE RunFrom(_, _, _, _)
\* what follows call number i, whose outcome is res: a failed checked call
\* returns error_origin() of its result at once; the last call sends
AfterCall(steps, i, f, res) ==
    IF res.r < 0 /\ steps[i].checked
    THEN [r |-> error_origin(res.r), sent |-> <<>>, n |-> Len(steps)]
    ELSE IF i = Len(steps)
         THEN [r |-> 0, sent |-> res.wire, n |-> Len(steps)]
         ELSE RunFrom(steps, i + 1, f, res.m)

\* the calls steps[i..] in order on the message m; call number f fails in the
\* library. n is the number of calls of the sequence.
RunFrom(steps, i, f, m) ==
    IF i > Len(steps)
    THEN [r |-> 0, sent |-> <<>>, n |-> Len(steps)]
    ELSE AfterCall(steps, i, f,
                   IF i = f THEN [r |-> -ENOMEM, wire |-> <<>>, m |-> m]
                   ELSE Apply(steps[i], m))

RunSteps(steps, f) == RunFrom(steps, 1, f, NoMsg)

(* --------------------- messages to the service manager ---------------- *)

\* the library calls of manager_request_activation, in order
RequestActivationSteps(name, unit) ==
    << NewSignal("/org/freedesktop/DBus", "org.freedesktop.systemd1.Activator",
                 "ActivationRequest"),
       AppendItems(<<Str(unit)>>),
       SetDestination("org.freedesktop.systemd1"),
       Send >>

manager_request_activation(name, unit, f) ==
    RunSteps(RequestActivationSteps(name, unit), f)

\* what reading exec[0] yields: the first argument, or, when the array holds
\* no element, whatever lies behind the allocation
Exec0(exec, n_exec) == IF n_exec > 0 THEN {exec[1]} ELSE {NULL, GARBAGE}

\* a variant of StartTransientUnitSteps whose argument list leaves out
\* exec[0]; C2 tells the two apart
StartTransientUnitSteps_tail(name, exec, n_exec, e0) ==
    << Other("asprintf"),
       NewCall(FALSE, "org.freedesktop.systemd1", "/org/freedesktop/systemd1",
               "org.freedesktop.systemd1.Manager", "StartTransientUnit"),
       AppendItems(<<Str("dbus-" \o name \o ".service"), Str("fail")>>),
       OpenContainer("a", "(sv)"),
       OpenContainer("r", "sv"),
       AppendItems(<<Str("ExecStart")>>),
       OpenContainer("v", "a(sasb)"),
       OpenContainer("a", "(sasb)"),
       OpenContainer("r", "sasb"),
       AppendItems(<<Str(e0)>>),
       OpenContainer("a", "s") >>
    \o [i \in 1..(n_exec - 1) |-> AppendItems(<<Str(exec[i + 1])>>)]
    \o << CloseContainer,
          AppendItems(<<Bool(TRUE)>>),
          CloseContainer,
          CloseContainer,
          CloseContainer,
          CloseContainer,
          CloseContainer,
          AppendItems(<<Container("a", "(sa(sv))", <<>>)>>),
          Send >>

\* a variant of StartTransientUnitSteps that leaves the property array open;
\* C26 tells the two apart
StartTransientUnitSteps_unclosed(name, exec, n_exec, e0) ==
    << Other("asprintf"),
       NewCall(FALSE, "org.freedesktop.systemd1", "/org/freedesktop/systemd1",
               "org.freedesktop.systemd1.Manager", "StartTransientUnit"),
       AppendItems(<<Str("dbus-" \o name \o ".service"), Str("fail")>>),
       OpenContainer("a", "(sv)"),
       OpenContainer("r", "sv"),
       AppendItems(<<Str("ExecStart")>>),
       OpenContainer("v", "a(sasb)"),
       OpenContainer("a", "(sasb)"),
       OpenContainer("r", "sasb"),
       AppendItems(<<Str(e0)>>),
       OpenContainer("a", "s") >>
    \o [i \in 1..n_exec |-> AppendItems(<<Str(exec[i])>>)]
    \o << CloseContainer,
          AppendItems(<<Bool(TRUE)>>),
          CloseContainer,
          CloseContainer,
          CloseContainer,
          CloseContainer,
          AppendItems(<<Container("a", "(sa(sv))", <<>>)>>),
          Send >>

\* the library calls of manager_start_transient_unit, in order; e0 is exec[0]
StartTransientUnitSteps(name, exec, n_exec, e0) ==
    << Other("asprintf"),
       NewCall(FALSE, "org.freedesktop.systemd1", "/org/freedesktop/systemd1",
               "org.freedesktop.systemd1.Manager", "StartTransientUnit"),
       AppendItems(<<Str("dbus-" \o name \o ".service"), Str("fail")>>),
       OpenContainer("a", "(sv)"),
       OpenContainer("r", "sv"),
       AppendItems(<<Str("ExecStart")>>),
       OpenContainer("v", "a(sasb)"),
       OpenContainer("a", "(sasb)"),
       OpenContainer("r", "sasb"),
       AppendItems(<<Str(e0)>>),
       OpenContainer("a", "s") >>
    \o [i \in 1..n_exec |-> AppendItems(<<Str(exec[i])>>)]
    \o << CloseContainer,
          AppendItems(<<Bool(TRUE)>>),
          CloseContainer,
          CloseContainer,
          CloseContainer,
          CloseContainer,
          CloseContainer,
          AppendItems(<<Container("a", "(sa(sv))", <<>>)>>),
          Send >>

\* a variant of manager_start_transient_unit that tests the result of no
\* library call but the last; C25 tells the two apart
manager_start_transient_unit_unchecked(name, exec, n_exec, f, e0) ==
    LET steps == StartTransientUnitSteps(name, exec, n_exec, e0)
    IN  RunSteps([i \in 1..Len(steps) |->
                     [steps[i] EXCEPT !.checked = (i = Len(steps))]], f)

manager_start_transient_unit(name, exec, n_exec, f, e0) ==
    RunSteps(StartTransientUnitSteps(name, exec, n_exec, e0), f)

\* the service the registry holds under id
HasService(services, id) == \E s \in services : s.id = id
FindService(services, id) == CHOOSE s \in services : s.id = id

\* a variant of manager_on_name_activate that looks at exec before unit; C1
\* tells the two apart
manager_on_name_activate_exec_first(services, id, f, e0) ==
    IF ~HasService(services, id)
    THEN [r |-> 0, sent |-> <<>>, n |-> 0, diag |-> "Activation request on unknown name"]
    ELSE LET service == FindService(services, id) IN
         IF service.name = SYSTEMD1
         THEN [r |-> 0, sent |-> <<>>, n |-> 0, diag |-> NULL]
         ELSE LET res == IF service.has_exec
                         THEN manager_start_transient_unit(service.name, service.exec,
                                                           service.n_exec, f, e0)
                         ELSE manager_request_activation(service.name, service.unit, f)
              IN  [r |-> IF res.r # 0 THEN error_trace(res.r) ELSE 0,
                   sent |-> res.sent, n |-> res.n, diag |-> NULL]

\* a variant of manager_on_name_activate without the test for the service
\* manager's own name; C3 tells the two apart
manager_on_name_activate_any_name(services, id, f, e0) ==
    IF ~HasService(services, id)
    THEN [r |-> 0, sent |-> <<>>, n |-> 0, diag |-> "Activation request on unknown name"]
    ELSE LET service == FindService(services, id) IN
         LET res == IF service.unit # NULL
                    THEN manager_request_activation(service.name, service.unit, f)
                    ELSE manager_start_transient_unit(service.name, service.exec,
                                                      service.n_exec, f, e0)
         IN  [r |-> IF res.r # 0 THEN error_trace(res.r) ELSE 0,
              sent |-> res.sent, n |-> res.n, diag |-> NULL]

\* a variant of manager_on_name_activate that reports an unknown id as a
\* failure; C4 tells the two apart
manager_on_name_activate_strict(services, id, f, e0) ==
    IF ~HasService(services, id)
    THEN [r |-> error_origin(-ENOENT), sent |-> <<>>, n |-> 0,
          diag |-> "Activation request on unknown name"]
    ELSE LET service == FindService(services, id) IN
         IF service.name = SYSTEMD1
         THEN [r |-> 0, sent |-> <<>>, n |-> 0, diag |-> NULL]
         ELSE LET res == IF service.unit # NULL
                         THEN manager_request_activation(service.name, service.unit, f)
                         ELSE manager_start_transient_unit(service.name, service.exec,
                                                           service.n_exec, f, e0)
              IN  [r |-> IF res.r # 0 THEN error_trace(res.r) ELSE 0,
                   sent |-> res.sent, n |-> res.n, diag |-> NULL]

\* f: the library call that fails (0: none); e0: what exec[0] reads
manager_on_name_activate(services, id, f, e0) ==
    IF ~HasService(services, id)
    THEN [r |-> 0, sent |-> <<>>, n |-> 0, diag |-> "Activation request on unknown name"]
    ELSE LET service == FindService(services, id) IN
         IF service.name = SYSTEMD1
         THEN [r |-> 0, sent |-> <<>>, n |-> 0, diag |-> NULL]
         ELSE LET res == IF service.unit # NULL
                         THEN manager_request_activation(service.name, service.unit, f)
                         ELSE manager_start_transient_unit(service.name, service.exec,
                                                           service.n_exec, f, e0)
              IN  [r |-> IF res.r # 0 THEN error_trace(res.r) ELSE 0,
                   sent |-> res.sent, n |-> res.n, diag |-> NULL]

\* a variant of SetEnvironmentSteps that walks the mapping from its end; C5
\* tells the two apart
SetEnvironmentSteps_reversed(env) ==
    << NewCall(TRUE, "org.freedesktop.systemd1", "/org/freedesktop/systemd1",
               "org.freedesktop.systemd1.Manager", "SetEnvironment"),
       Other("enter_container"),
       OpenContainer("a", "s") >>
    \o [i \in 1..(3 * Len(env)) |->
          LET e == env[Len(env) - ((i - 1) \div 3)] IN
          CASE (i - 1) % 3 = 0 -> Other("read")
            [] (i - 1) % 3 = 1 -> Other("asprintf")
            [] OTHER -> AppendItems(<<Str(e[1] \o "=" \o e[2])>>)]
    \o << CloseContainer,
          Other("exit_container"),
          Send >>

\* the library calls of manager_on_set_activation_environment; env is the
\* mapping of the inbound message, a sequence of <<key, value>> in wire order
SetEnvironmentSteps(env) ==
    << NewCall(TRUE, "org.freedesktop.systemd1", "/org/freedesktop/systemd1",
               "org.freedesktop.systemd1.Manager", "SetEnvironment"),
       Other("enter_container"),
       OpenContainer("a", "s") >>
    \o [i \in 1..(3 * Len(env)) |->
          LET e == env[((i - 1) \div 3) + 1] IN
          CASE (i - 1) % 3 = 0 -> Other("read")
            [] (i - 1) % 3 = 1 -> Other("asprintf")
            [] OTHER -> AppendItems(<<Str(e[1] \o "=" \o e[2])>>)]
    \o << CloseContainer,
          Other("exit_container"),
          Send >>

manager_on_set_activation_environment(env, f) ==
    LET res == RunSteps(SetEnvironmentSteps(env), f)
    IN  [r |-> res.r, sent |-> res.sent, n |-> res.n, diag |-> NULL]

\* sd_bus_message_is_signal()
is_signal(m, iface, member) == m.type = "signal" /\ m.iface = iface /\ m.member = member

\* a variant of the filter that forwards the environment for every message on
\* the broker path, whatever it is; C24 tells the two apart
manager_on_message_any_member(services, m, f, e0) ==
    IF m.path = NULL
    THEN [r |-> 0, sent |-> <<>>, n |-> 0, diag |-> NULL]
    ELSE LET suffix == c_string_prefix(m.path, NAME_PREFIX)
             res == IF suffix # NULL
                    THEN IF is_signal(m, "org.bus1.DBus.Name", "Activate")
                         THEN manager_on_name_activate(services, suffix, f, e0)
                         ELSE [r |-> 0, sent |-> <<>>, n |-> 0, diag |-> NULL]
                    ELSE IF m.path = BROKER_PATH
                         THEN manager_on_set_activation_environment(m.env, f)
                         ELSE [r |-> 0, sent |-> <<>>, n |-> 0, diag |-> NULL]
         IN  [r |-> error_trace(res.r), sent |-> res.sent, n |-> res.n, diag |-> res.diag]

\* the controller-link filter: m is the inbound message
manager_on_message(services, m, f, e0) ==
    IF m.path = NULL
    THEN [r |-> 0, sent |-> <<>>, n |-> 0, diag |-> NULL]
    ELSE LET suffix == c_string_prefix(m.path, NAME_PREFIX)
             res == IF suffix # NULL
                    THEN IF is_signal(m, "org.bus1.DBus.Name", "Activate")
                         THEN manager_on_name_activate(services, suffix, f, e0)
                         ELSE [r |-> 0, sent |-> <<>>, n |-> 0, diag |-> NULL]
                    ELSE IF m.path = BROKER_PATH
                              /\ is_signal(m, "org.bus1.DBus.Broker", "SetActivationEnvironment")
                         THEN manager_on_set_activation_environment(m.env, f)
                         ELSE [r |-> 0, sent |-> <<>>, n |-> 0, diag |-> NULL]
         IN  [r |-> error_trace(res.r), sent |-> res.sent, n |-> res.n, diag |-> res.diag]


(* ------------------------------ inputs -------------------------------- *)

RECURSIVE Rep(_, _)
Rep(c, n) == IF n = 0 THEN "" ELSE c \o Rep(c, n - 1)

SYSTEM_SOCKET == "/var/run/dbus/system_bus_socket"
\* a path that does not fit struct sockaddr_un
LONG_PATH == "/" \o Rep("a", SUN_PATH_MAX)

\* the command lines tried
Argvs ==
    { <<>>,
      <<"--listen", "inherit">>,
      <<"-f", "--listen", "/run/bus">>,
      <<"--listen", LONG_PATH>>,
      <<"--listen", "bus">>,
      <<"--scope", "user">>,
      <<"--scope", "session">>,
      <<"--help">> }

\* the filesystem entries that may exist at the start of a run
FsPaths == {"/run/bus", SYSTEM_SOCKET}

\* the values of XDG_RUNTIME_DIR
RuntimeDirs == {NULL, "/run/user/1000"}

\* what the key-file parser yields for one service file
KeyFile(loads, name, unit, has_exec, exec) ==
    [loads |-> loads, name |-> name, unit |-> unit, has_exec |-> has_exec, exec |-> exec]

\* a directory entry: a name and the content of the file
DirEntry(d_name, f) == [d_name |-> d_name, f |-> f]

\* the listing the service directories are taken from: a directory holds any
\* of these entries, and readdir() yields them in the order of the listing
DirEntries ==
    << DirEntry(".hidden.service", KeyFile(TRUE, "foo", "foo.service", FALSE, <<>>)),
       DirEntry("foo.service", KeyFile(TRUE, "foo", "foo.service", FALSE, <<>>)),
       DirEntry("broken.service", KeyFile(FALSE, NULL, NULL, FALSE, <<>>)),
       DirEntry("bar.service", KeyFile(TRUE, "bar", NULL, TRUE, <<"/bin/x", "--a">>)),
       DirEntry("foo.conf", KeyFile(TRUE, "foo", "foo.service", FALSE, <<>>)),
       DirEntry("noname.service", KeyFile(TRUE, NULL, "foo.service", FALSE, <<>>)),
       DirEntry("both.service", KeyFile(TRUE, "baz", "baz.service", TRUE, <<"/bin/z">>)),
       DirEntry(".service", KeyFile(TRUE, "foo", "foo.service", FALSE, <<>>)),
       DirEntry("neither.service", KeyFile(TRUE, "foo", NULL, FALSE, <<>>)),
       DirEntry("empty.service", KeyFile(TRUE, "qux", NULL, TRUE, <<>>)),
       DirEntry("pid1u.service", KeyFile(TRUE, SYSTEMD1, "systemd.service", FALSE, <<>>)),
       DirEntry("pid1e.service", KeyFile(TRUE, SYSTEMD1, NULL, TRUE, <<"/sbin/init">>)) >>

\* an inbound controller-link message; env is the body of SetActivationEnvironment
InMsg(type, path, iface, member, env) ==
    [type |-> type, path |-> path, iface |-> iface, member |-> member, env |-> env]

Activate(id) == InMsg("signal", NAME_PREFIX \o id, "org.bus1.DBus.Name", "Activate", <<>>)
SetActivationEnvironment(env) ==
    InMsg("signal", BROKER_PATH, "org.bus1.DBus.Broker", "SetActivationEnvironment", env)

Envs == { <<>>, <<<<"A", "1">>, <<"B", "2">>>>, <<<<"B", "2">>, <<"A", "1">>>> }

\* the ids activation is requested for: every id the run can hand out, and "0"
ActivateIds == {Dec(i) : i \in 0..MaxFiles}

InMsgs ==
    {Activate(id) : id \in ActivateIds}
    \cup {SetActivationEnvironment(env) : env \in Envs}
    \cup { InMsg("signal", NULL, "org.bus1.DBus.Name", "Activate", <<>>),
           InMsg("signal", NAME_PREFIX \o "1", "org.bus1.DBus.Name", "Release", <<>>),
           InMsg("signal", BROKER_PATH, "org.bus1.DBus.Broker", "Activate", <<>>),
           InMsg("method_call", BROKER_PATH, "org.bus1.DBus.Broker",
                 "SetActivationEnvironment", <<<<"A", "1">>>>),
           InMsg("signal", "/org/bus1/DBus/Listener/0", "org.bus1.DBus.Name", "Activate", <<>>) }

\* no inbound message dispatched yet
NoInMsg == InMsg("none", NULL, NULL, NULL, <<>>)

\* how the broker may end: si_code and si_status
ChildExits == { [si_code |-> "CLD_EXITED", si_status |-> 0],
                [si_code |-> "CLD_EXITED", si_status |-> 1],
                [si_code |-> "CLD_EXITED", si_status |-> 3],
                [si_code |-> "CLD_KILLED", si_status |-> 15],
                [si_code |-> "CLD_DUMPED", si_status |-> 11] }


(* ------------------------------ parse_argv ---------------------------- *)

RECURSIVE parse_from(_, _, _)
\* the options argv[i..] applied to the globals a; r is parse_argv's result
parse_from(args, i, a) ==
    IF i > Len(args)
    THEN [a EXCEPT !.r = 0]
    ELSE LET o == args[i] IN
         CASE o \in {"-h", "--help", "--version"} -> [a EXCEPT !.r = MAIN_EXIT]
           [] o \in {"-f", "--force"} -> parse_from(args, i + 1, [a EXCEPT !.force = TRUE])
           [] o = "--listen" ->
                IF i = Len(args)
                THEN [a EXCEPT !.r = MAIN_FAILED]
                ELSE parse_from(args, i + 2, [a EXCEPT !.listen = args[i + 1]])
           [] o = "--scope" ->
                IF i = Len(args) \/ args[i + 1] \notin {"system", "user"}
                THEN [a EXCEPT !.r = MAIN_FAILED]
                ELSE parse_from(args, i + 2, [a EXCEPT !.scope = args[i + 1]])
           [] OTHER -> [a EXCEPT !.r = MAIN_FAILED]

parse_argv(args) ==
    parse_from(args, 1, [r |-> 0, listen |-> NULL, force |-> FALSE, scope |-> "system"])

(* --------------------------- service registry ------------------------- *)

Service(id, name, unit, has_exec, exec, n_exec) ==
    [id |-> id, name |-> name, unit |-> unit, has_exec |-> has_exec,
     exec |-> exec, n_exec |-> n_exec]

\* where an allocation of service_new may fail
ServiceNewFails == {"none", "calloc", "strdup"}

\* a variant of service_new that numbers a service with the counter's value
\* before the increment; C6 tells the two apart
service_new_from_zero(services, service_ids, name, unit, has_exec, exec, n_exec, fail) ==
    IF fail = "calloc"
    THEN [r |-> error_origin(-ENOMEM), services |-> services, service_ids |-> service_ids,
          id |-> NULL]
    ELSE IF fail = "strdup"
    THEN [r |-> error_origin(-ENOMEM), services |-> services,
          service_ids |-> service_ids + 1, id |-> NULL]
    ELSE LET id == Dec(service_ids) IN
         [r |-> 0,
          services |-> services \cup
              { Service(id, name, unit, has_exec,
                        IF has_exec THEN exec ELSE <<>>,
                        IF has_exec THEN n_exec ELSE 0) },
          service_ids |-> service_ids + 1,
          id |-> id]

\* service_new: the id counter is advanced before the strings are copied
service_new(services, service_ids, name, unit, has_exec, exec, n_exec, fail) ==
    IF fail = "calloc"
    THEN [r |-> error_origin(-ENOMEM), services |-> services, service_ids |-> service_ids,
          id |-> NULL]
    ELSE IF fail = "strdup"
    THEN [r |-> error_origin(-ENOMEM), services |-> services,
          service_ids |-> service_ids + 1, id |-> NULL]
    ELSE LET id == Dec(service_ids + 1) IN
         [r |-> 0,
          services |-> services \cup
              { Service(id, name, unit, has_exec,
                        IF has_exec THEN exec ELSE <<>>,
                        IF has_exec THEN n_exec ELSE 0) },
          service_ids |-> service_ids + 1,
          id |-> id]

\* a variant of service_free that leaves the service in the registry; C23 tells
\* the two apart
service_free_keep(services, id) == services

\* service_free: the service leaves the registry
service_free(services, id) == {s \in services : s.id # id}

\* sd_bus_call(), also inside sd_bus_call_method(): the message is sent and the
\* caller blocks until the reply to it has come (replied) or the call has timed
\* out
Wait(member, replied) == [member |-> member, replied |-> replied]

\* the AddName call of manager_load_service
AddName(object_path, name) ==
    [member |-> "AddName", path |-> object_path, name |-> name, fd |-> -1]

\* where manager_load_service may fail after the file was accepted
LoadFails == ServiceNewFails \cup {"asprintf", "call", "noreply"}

\* a variant of manager_load_service that lets a definition with neither a unit
\* nor an exec through; C16 tells the two apart
manager_load_service_lax(services, service_ids, f, fail) ==
    LET skip(d) == [r |-> 0, services |-> services, service_ids |-> service_ids,
                    calls |-> <<>>, waits |-> <<>>, diag |-> d]
    IN
    IF ~f.loads THEN skip("Cannot load service file")
    ELSE IF f.name = NULL THEN skip("Missing name in service file")
    ELSE LET new == service_new(services, service_ids, f.name, f.unit, f.has_exec,
                                f.exec, Len(f.exec),
                                IF fail \in ServiceNewFails THEN fail ELSE "none")
         IN  IF new.r # 0
             THEN [r |-> error_trace(new.r), services |-> new.services,
                   service_ids |-> new.service_ids, calls |-> <<>>, waits |-> <<>>,
                   diag |-> NULL]
             ELSE IF fail = "asprintf"
             THEN [r |-> error_origin(-ENOMEM), services |-> service_free(new.services, new.id),
                   service_ids |-> new.service_ids, calls |-> <<>>, waits |-> <<>>,
                   diag |-> NULL]
             ELSE IF fail = "call"
             THEN [r |-> error_origin(-ENOMEM), services |-> service_free(new.services, new.id),
                   service_ids |-> new.service_ids, calls |-> <<>>, waits |-> <<>>,
                   diag |-> NULL]
             ELSE IF fail = "noreply"
             THEN [r |-> error_origin(-ETIMEDOUT),
                   services |-> service_free(new.services, new.id),
                   service_ids |-> new.service_ids, calls |-> <<>>,
                   waits |-> <<Wait("AddName", FALSE)>>, diag |-> NULL]
             ELSE [r |-> 0, services |-> new.services, service_ids |-> new.service_ids,
                   calls |-> <<AddName(NAME_PREFIX \o new.id, f.name)>>,
                   waits |-> <<Wait("AddName", TRUE)>>, diag |-> NULL]

\* a variant of manager_load_service that sends AddName without waiting for the
\* reply; C22 tells the two apart
manager_load_service_async(services, service_ids, f, fail) ==
    LET skip(d) == [r |-> 0, services |-> services, service_ids |-> service_ids,
                    calls |-> <<>>, waits |-> <<>>, diag |-> d]
    IN
    IF ~f.loads THEN skip("Cannot load service file")
    ELSE IF f.name = NULL THEN skip("Missing name in service file")
    ELSE IF f.unit = NULL /\ ~f.has_exec THEN skip("Missing exec or unit in service file")
    ELSE LET new == service_new(services, service_ids, f.name, f.unit, f.has_exec,
                                f.exec, Len(f.exec),
                                IF fail \in ServiceNewFails THEN fail ELSE "none")
         IN  IF new.r # 0
             THEN [r |-> error_trace(new.r), services |-> new.services,
                   service_ids |-> new.service_ids, calls |-> <<>>, waits |-> <<>>,
                   diag |-> NULL]
             ELSE IF fail = "asprintf"
             THEN [r |-> error_origin(-ENOMEM), services |-> service_free(new.services, new.id),
                   service_ids |-> new.service_ids, calls |-> <<>>, waits |-> <<>>,
                   diag |-> NULL]
             ELSE IF fail = "call"
             THEN [r |-> error_origin(-ENOMEM), services |-> service_free(new.services, new.id),
                   service_ids |-> new.service_ids, calls |-> <<>>, waits |-> <<>>,
                   diag |-> NULL]
             ELSE [r |-> 0, services |-> new.services, service_ids |-> new.service_ids,
                   calls |-> <<AddName(NAME_PREFIX \o new.id, f.name)>>,
                   waits |-> <<>>, diag |-> NULL]

\* a variant of manager_load_service in which a skipped definition uses up an
\* id; C29 tells the two apart
manager_load_service_skip_counts(services, service_ids, f, fail) ==
    IF ~f.loads \/ f.name = NULL \/ (f.unit = NULL /\ ~f.has_exec)
    THEN [r |-> 0, services |-> services, service_ids |-> service_ids + 1,
          calls |-> <<>>, waits |-> <<>>, diag |-> "Cannot load service file"]
    ELSE manager_load_service_lax(services, service_ids, f, fail)

\* manager_load_service on the key file f
manager_load_service(services, service_ids, f, fail) ==
    LET skip(d) == [r |-> 0, services |-> services, service_ids |-> service_ids,
                    calls |-> <<>>, waits |-> <<>>, diag |-> d]
    IN
    IF ~f.loads THEN skip("Cannot load service file")
    ELSE IF f.name = NULL THEN skip("Missing name in service file")
    ELSE IF f.unit = NULL /\ ~f.has_exec THEN skip("Missing exec or unit in service file")
    ELSE LET new == service_new(services, service_ids, f.name, f.unit, f.has_exec,
                                f.exec, Len(f.exec),
                                IF fail \in ServiceNewFails THEN fail ELSE "none")
         IN  IF new.r # 0
             THEN [r |-> error_trace(new.r), services |-> new.services,
                   service_ids |-> new.service_ids, calls |-> <<>>, waits |-> <<>>,
                   diag |-> NULL]
             ELSE IF fail = "asprintf"
             THEN [r |-> error_origin(-ENOMEM), services |-> service_free(new.services, new.id),
                   service_ids |-> new.service_ids, calls |-> <<>>, waits |-> <<>>,
                   diag |-> NULL]
             ELSE IF fail = "call"
             THEN [r |-> error_origin(-ENOMEM), services |-> service_free(new.services, new.id),
                   service_ids |-> new.service_ids, calls |-> <<>>, waits |-> <<>>,
                   diag |-> NULL]
             ELSE IF fail = "noreply"
             THEN [r |-> error_origin(-ETIMEDOUT),
                   services |-> service_free(new.services, new.id),
                   service_ids |-> new.service_ids, calls |-> <<>>,
                   waits |-> <<Wait("AddName", FALSE)>>, diag |-> NULL]
             ELSE [r |-> 0, services |-> new.services, service_ids |-> new.service_ids,
                   calls |-> <<AddName(NAME_PREFIX \o new.id, f.name)>>,
                   waits |-> <<Wait("AddName", TRUE)>>, diag |-> NULL]

\* the directory scan of manager_load_services skips this entry
SkippedName(d_name) ==
    LET suffix == ".service"
        n == Len(d_name)
    IN  \/ SubSeq(d_name, 1, 1) = "."
        \/ n <= Len(suffix)
        \/ SubSeq(d_name, n - Len(suffix) + 1, n) # suffix

(* --------------------------- listener acquisition --------------------- *)

\* a variant of manager_listen_inherit without the assertion; C7 tells the two
\* apart
manager_listen_inherit_noassert(fd_listen, n, sock, getfl, setfl) ==
    LET ret(r, fd, d) == [abort |-> FALSE, r |-> r, fd_listen |-> fd, diag |-> d] IN
    IF n < 0 THEN ret(error_origin(n), fd_listen, NULL)
    ELSE IF n = 0 THEN ret(MAIN_FAILED, fd_listen, "No listener socket inherited")
    ELSE IF n > 1 THEN ret(MAIN_FAILED, fd_listen, "More than one listener socket passed")
    ELSE IF sock < 0 THEN ret(error_origin(sock), fd_listen, NULL)
    ELSE IF sock = 0 THEN ret(MAIN_FAILED, fd_listen, "Non unix-domain-socket passed as listener")
    ELSE IF ~getfl THEN ret(error_origin(-EINVAL), fd_listen, NULL)
    ELSE IF ~setfl THEN ret(error_origin(-EINVAL), fd_listen, NULL)
    ELSE ret(0, SD_LISTEN_FDS_START, NULL)

\* a variant of manager_listen_inherit that takes the first descriptor when
\* several are passed; C8 tells the two apart
manager_listen_inherit_first(fd_listen, n, sock, getfl, setfl) ==
    LET ret(r, fd, d) == [abort |-> FALSE, r |-> r, fd_listen |-> fd, diag |-> d] IN
    IF fd_listen >= 0
    THEN [abort |-> TRUE, r |-> 0, fd_listen |-> fd_listen, diag |-> NULL]
    ELSE IF n < 0 THEN ret(error_origin(n), fd_listen, NULL)
    ELSE IF n = 0 THEN ret(MAIN_FAILED, fd_listen, "No listener socket inherited")
    ELSE IF sock < 0 THEN ret(error_origin(sock), fd_listen, NULL)
    ELSE IF sock = 0 THEN ret(MAIN_FAILED, fd_listen, "Non unix-domain-socket passed as listener")
    ELSE IF ~getfl THEN ret(error_origin(-EINVAL), fd_listen, NULL)
    ELSE IF ~setfl THEN ret(error_origin(-EINVAL), fd_listen, NULL)
    ELSE ret(0, SD_LISTEN_FDS_START, NULL)

\* manager_listen_inherit: n is what sd_listen_fds() returns, sock what
\* sd_is_socket() returns, getfl and setfl whether the fcntl() calls succeed
manager_listen_inherit(fd_listen, n, sock, getfl, setfl) ==
    LET ret(r, fd, d) == [abort |-> FALSE, r |-> r, fd_listen |-> fd, diag |-> d] IN
    IF fd_listen >= 0
    THEN [abort |-> TRUE, r |-> 0, fd_listen |-> fd_listen, diag |-> NULL]
    ELSE IF n < 0 THEN ret(error_origin(n), fd_listen, NULL)
    ELSE IF n = 0 THEN ret(MAIN_FAILED, fd_listen, "No listener socket inherited")
    ELSE IF n > 1 THEN ret(MAIN_FAILED, fd_listen, "More than one listener socket passed")
    ELSE IF sock < 0 THEN ret(error_origin(sock), fd_listen, NULL)
    ELSE IF sock = 0 THEN ret(MAIN_FAILED, fd_listen, "Non unix-domain-socket passed as listener")
    ELSE IF ~getfl THEN ret(error_origin(-EINVAL), fd_listen, NULL)
    ELSE IF ~setfl THEN ret(error_origin(-EINVAL), fd_listen, NULL)
    ELSE ret(0, SD_LISTEN_FDS_START, NULL)

\* a filesystem entry: one found at the start of the run ("stale"), or the
\* socket this run bound ("listener")
Entry(p, kind) == [path |-> p, kind |-> kind]
Exists(fs, p) == \E e \in fs : e.path = p

\* bind(): an existing entry at the path refuses the address
bind(fs, p, ok) ==
    IF Exists(fs, p) THEN [r |-> -EADDRINUSE, fs |-> fs]
    ELSE IF ~ok THEN [r |-> -EACCES, fs |-> fs]
    ELSE [r |-> 0, fs |-> fs \cup {Entry(p, "listener")}]

\* manager_listen_path: sock, bound and listening tell whether socket(), bind()
\* (on a free path) and listen() succeed; smash is the outcome of copying a
\* path longer than the address buffer: the process dies, or bind() refuses
manager_listen_path(fd_listen, p, fs, sock, bound, listening, smash) ==
    LET ret(r, fd, f) == [abort |-> FALSE, crash |-> FALSE, r |-> r, fd_listen |-> fd, fs |-> f] IN
    IF fd_listen >= 0
    THEN [abort |-> TRUE, crash |-> FALSE, r |-> 0, fd_listen |-> fd_listen, fs |-> fs]
    ELSE IF ~sock THEN ret(error_origin(-ENOMEM), fd_listen, fs)
    ELSE IF Len(p) > SUN_PATH_MAX
    THEN IF smash
         THEN [abort |-> FALSE, crash |-> TRUE, r |-> 0, fd_listen |-> fd_listen, fs |-> fs]
         ELSE ret(error_origin(-EINVAL), fd_listen, fs)
    ELSE LET b == bind(fs, p, bound) IN
         IF b.r < 0 THEN ret(error_origin(b.r), fd_listen, fs)
         ELSE IF ~listening THEN ret(error_origin(-EINVAL), fd_listen, b.fs)
         ELSE ret(0, SOCKET_FD, b.fs)

\* unlink(): 0, or -errno
unlink(fs, p, ok) ==
    IF ~Exists(fs, p) THEN [r |-> -ENOENT, fs |-> fs]
    ELSE IF ~ok THEN [r |-> -EACCES, fs |-> fs]
    ELSE [r |-> 0, fs |-> {e \in fs : e.path # p}]

\* a variant of force_unlink that gives up on a missing entry too; C9 tells
\* the two apart
force_unlink_strict(force, fs, p, ok) ==
    IF force
    THEN LET u == unlink(fs, p, ok) IN
         IF u.r < 0
         THEN [r |-> error_origin(u.r), fs |-> fs, removed |-> <<>>]
         ELSE [r |-> 0, fs |-> u.fs, removed |-> <<p>>]
    ELSE [r |-> 0, fs |-> fs, removed |-> <<>>]

\* a variant of force_unlink that removes the entry whether or not --force
\* was given; C10 tells the two apart
force_unlink_always(force, fs, p, ok) ==
    LET u == unlink(fs, p, ok) IN
    IF u.r < 0 /\ u.r # -ENOENT
    THEN [r |-> error_origin(u.r), fs |-> fs, removed |-> <<>>]
    ELSE [r |-> 0, fs |-> u.fs, removed |-> IF u.r = 0 THEN <<p>> ELSE <<>>]

\* run(): with --force the entry at the path is removed before the bind; a
\* missing entry is no failure
force_unlink(force, fs, p, ok) ==
    IF force
    THEN LET u == unlink(fs, p, ok) IN
         IF u.r < 0 /\ u.r # -ENOENT
         THEN [r |-> error_origin(u.r), fs |-> fs, removed |-> <<>>]
         ELSE [r |-> 0, fs |-> u.fs, removed |-> IF u.r = 0 THEN <<p>> ELSE <<>>]
    ELSE [r |-> 0, fs |-> fs, removed |-> <<>>]


(* ------------------------------- state -------------------------------- *)

VARIABLES
    pc,               \* where main()/run()/manager_run() stand
    argv,             \* the command line
    fs,               \* the filesystem entries that exist
    listen_fds,       \* what sd_listen_fds() finds: the number of descriptors
                      \* passed, negative when the environment is malformed
    unlinked,         \* the paths this run removed with unlink(), in order
    main_arg_listen, main_arg_force, main_arg_scope,
    listen_path, path, unlink_path,        \* locals of run()
    manager,          \* "none", "live", "freed"
    fd_listen,        \* Manager.fd_listen
    services,         \* Manager.services
    service_ids,      \* Manager.service_ids
    n_files,          \* directory entries read so far
    d_pos,            \* the place in the listing of the entry read last
    files,            \* the key files handed to manager_load_service, in order
    bus_controller,   \* "none", "new", "set", "started", "closed"
    bus_regular,      \* "none", "open", "closed"
    ctl_out,          \* the calls issued on the controller link, in order
    fd_controller,    \* the parent's copy of controller[1]: "none", "open", "closed"
    child,            \* the broker process
    watcher,          \* the child watcher is registered
    in_msg,           \* the inbound message dispatched last
    sent,             \* what that dispatch sent on the regular link
    r_msg,            \* what manager_on_message returned for it
    r,                \* the result travelling up from run()
    diag,             \* the line the launcher's last step wrote to stderr, NULL if none
    exit_status,      \* the status the process ended with, -1 while it runs
    freed,            \* what manager_free released, in order
    last_call,        \* test_basic: the error-macro call made last
    waits             \* the replies the launcher blocked for on the controller link, in order

gArgs == <<argv, listen_fds, main_arg_listen, main_arg_force, main_arg_scope>>
gPath == <<listen_path, path, unlink_path>>
gReg == <<services, service_ids, n_files, d_pos, files>>
gBus == <<bus_controller, bus_regular, ctl_out>>
gChild == <<fd_controller, child, watcher>>
gMsg == <<in_msg, sent, r_msg>>
gEnd == <<exit_status, freed>>
gFs == <<fs, unlinked>>

vars == <<pc, gArgs, gFs, gPath, manager, fd_listen, gReg, gBus, gChild, gMsg, r, diag, gEnd,
          last_call, waits>>

NoChild == [state |-> "none", si_code |-> "none", si_status |-> 0]

\* no error macro was called
NoCall == [macro |-> "none", expr |-> "none", r0 |-> 0, arg |-> 0, evals |-> 0]

\* the entry a command line may find in its way
PathsOf(args) ==
    LET a == parse_argv(args) IN
    IF a.listen = NULL THEN {SYSTEM_SOCKET} ELSE {a.listen} \cap FsPaths

Init ==
    /\ pc = "main"
    /\ argv \in Argvs
    /\ fs \in SUBSET {Entry(p, "stale") : p \in PathsOf(argv)}
    /\ listen_fds \in IF parse_argv(argv).listen = "inherit" THEN {-EINVAL, 0, 1, 2} ELSE {0}
    /\ unlinked = <<>>
    /\ main_arg_listen = NULL
    /\ main_arg_force = FALSE
    /\ main_arg_scope = "system"
    /\ listen_path = NULL
    /\ path = NULL
    /\ unlink_path = NULL
    /\ manager = "none"
    /\ fd_listen = -1
    /\ services = {}
    /\ service_ids = 0
    /\ n_files = 0
    /\ d_pos = 0
    /\ files = <<>>
    /\ bus_controller = "none"
    /\ bus_regular = "none"
    /\ ctl_out = <<>>
    /\ fd_controller = "none"
    /\ child = NoChild
    /\ watcher = FALSE
    /\ in_msg = NoInMsg
    /\ sent = <<>>
    /\ r_msg = 0
    /\ r = 0
    /\ diag = NULL
    /\ exit_status = -1
    /\ freed = <<>>
    /\ last_call = NoCall
    /\ waits = <<>>

(* ------------------------------- main, run ---------------------------- *)

\* main(): parse_argv
ParseArgv ==
    /\ pc = "main"
    /\ LET a == parse_argv(argv) IN
       /\ main_arg_listen' = a.listen
       /\ main_arg_force' = a.force
       /\ main_arg_scope' = a.scope
       /\ r' = a.r
       /\ pc' = IF a.r # 0 THEN "exit" ELSE "run"
    /\ UNCHANGED <<last_call, waits, argv, listen_fds, gFs, gPath, manager, fd_listen, gReg, gBus, gChild, gMsg, gEnd>>
    /\ diag' = NULL

\* run(): manager_new and the choice of the listener path; t is what
\* getenv("XDG_RUNTIME_DIR") returns, asp whether asprintf() succeeds
RunStart ==
    /\ pc = "run"
    /\ \E ok \in BOOLEAN, t \in RuntimeDirs, asp \in BOOLEAN :
         IF ~ok
         THEN /\ r' = error_trace(error_origin(-ENOMEM))
              /\ pc' = "exit"
              /\ UNCHANGED <<manager, bus_controller, gPath>>
         ELSE /\ manager' = "live"
              /\ bus_controller' = "new"
              /\ unlink_path' = unlink_path
              /\ IF main_arg_listen # NULL
                 THEN /\ path' = main_arg_listen
                      /\ listen_path' = listen_path
                      /\ r' = r
                      /\ pc' = "listen"
                 ELSE IF main_arg_scope = "user"
                 THEN IF ~asp
                      THEN /\ r' = error_origin(-ENOMEM)
                           /\ pc' = "free"
                           /\ UNCHANGED <<listen_path, path>>
                      ELSE \* listen_path is set, path stays NULL and is handed to strcmp()
                           /\ listen_path' = IF t # NULL THEN t \o "/bus"
                                             ELSE "/var/run/user/1000/bus"
                           /\ path' = path
                           /\ r' = r
                           /\ pc' = "crashed"
                 ELSE /\ path' = SYSTEM_SOCKET
                      /\ listen_path' = listen_path
                      /\ r' = r
                      /\ pc' = "listen"
    /\ UNCHANGED <<last_call, waits, gArgs, gFs, fd_listen, gReg, bus_regular, ctl_out, gChild, gMsg, gEnd>>
    /\ diag' = NULL

\* run(): path is "inherit"
RunListenInherit ==
    /\ pc = "listen"
    /\ path = "inherit"
    /\ \E sock \in {-EINVAL, 0, 1}, getfl \in BOOLEAN, setfl \in BOOLEAN :
         LET res == manager_listen_inherit(fd_listen, listen_fds, sock, getfl, setfl) IN
         /\ fd_listen' = res.fd_listen
         /\ diag' = res.diag
         /\ IF res.abort
            THEN pc' = "aborted" /\ r' = r
            ELSE /\ r' = IF res.r # 0 THEN error_trace(res.r) ELSE r
                 /\ pc' = IF res.r # 0 THEN "free" ELSE "manager_run"
    /\ UNCHANGED <<last_call, waits, gArgs, gFs, gPath, manager, gReg, gBus, gChild, gMsg, gEnd>>

\* run(): path is absolute; with --force the entry at the path is removed first
RunListenPath ==
    /\ pc = "listen"
    /\ path # "inherit"
    /\ SubSeq(path, 1, 1) = "/"
    /\ \E uok \in BOOLEAN, sock \in BOOLEAN, bound \in BOOLEAN, listening \in BOOLEAN,
          smash \in BOOLEAN :
         LET u == force_unlink(main_arg_force, fs, path, uok) IN
         IF u.r # 0
         THEN /\ r' = u.r
              /\ pc' = "free"
              /\ UNCHANGED <<gFs, fd_listen, unlink_path>>
         ELSE LET res == manager_listen_path(fd_listen, path, u.fs, sock, bound, listening, smash) IN
              /\ fs' = res.fs
              /\ unlinked' = unlinked \o u.removed
              /\ fd_listen' = res.fd_listen
              /\ IF res.abort \/ res.crash
                 THEN /\ pc' = IF res.abort THEN "aborted" ELSE "crashed"
                      /\ UNCHANGED <<r, unlink_path>>
                 ELSE IF res.r # 0
                 THEN /\ r' = error_trace(res.r)
                      /\ pc' = "free"
                      /\ UNCHANGED unlink_path
                 ELSE /\ unlink_path' = path
                      /\ pc' = "manager_run"
                      /\ r' = r
    /\ UNCHANGED <<last_call, waits, gArgs, listen_path, path, manager, gReg, gBus, gChild, gMsg, gEnd>>
    /\ diag' = NULL

\* run(): path is neither "inherit" nor absolute
RunListenInvalid ==
    /\ pc = "listen"
    /\ path # "inherit"
    /\ SubSeq(path, 1, 1) # "/"
    /\ diag' = "Invalid listener socket"
    /\ r' = MAIN_FAILED
    /\ pc' = "free"
    /\ UNCHANGED <<last_call, waits, gArgs, gFs, gPath, manager, fd_listen, gReg, gBus, gChild, gMsg, gEnd>>


(* ------------------------------ manager_run --------------------------- *)

\* manager_run: the assertion, socketpair() and sd_bus_set_fd()
ManagerRunSetup ==
    /\ pc = "manager_run"
    /\ IF fd_listen < 0
       THEN pc' = "aborted" /\ UNCHANGED <<r, bus_controller, fd_controller>>
       ELSE \E pair \in BOOLEAN, set \in BOOLEAN :
              IF ~pair
              THEN /\ r' = error_origin(-ENOMEM)
                   /\ pc' = "run_unlink"
                   /\ UNCHANGED <<bus_controller, fd_controller>>
              ELSE IF ~set
              THEN /\ r' = error_origin(-EINVAL)
                   /\ pc' = "run_unlink"
                   /\ fd_controller' = "closed"
                   /\ UNCHANGED bus_controller
              ELSE /\ bus_controller' = "set"
                   /\ fd_controller' = "open"
                   /\ pc' = "fork"
                   /\ r' = r
    /\ UNCHANGED <<last_call, waits, gArgs, gFs, gPath, manager, fd_listen, gReg, bus_regular, ctl_out, child,
                   watcher, gMsg, gEnd>>
    /\ diag' = NULL

\* manager_fork(): what fork() and sd_event_add_child() do, and the errno the
\* latter leaves behind; r is manager_fork's result
manager_fork(forked, added, errno) ==
    IF ~forked
    THEN [r |-> error_origin(-ENOMEM), child |-> FALSE, watcher |-> FALSE, closed |-> FALSE]
    ELSE IF ~added
    THEN [r |-> error_origin(-errno), child |-> TRUE, watcher |-> FALSE, closed |-> FALSE]
    ELSE [r |-> 0, child |-> TRUE, watcher |-> TRUE, closed |-> TRUE]

\* manager_run: manager_fork, and close(controller[1]) when it fails
ManagerFork ==
    /\ pc = "fork"
    /\ \E forked \in BOOLEAN, added \in BOOLEAN, errno \in {0, ENOMEM} :
         LET res == manager_fork(forked, added, errno) IN
         /\ child' = IF res.child THEN [state |-> "running", si_code |-> "none", si_status |-> 0]
                     ELSE child
         /\ watcher' = res.watcher
         /\ fd_controller' = IF res.closed \/ res.r # 0 THEN "closed" ELSE fd_controller
         /\ r' = IF res.r # 0 THEN error_trace(res.r) ELSE r
         /\ pc' = IF res.r # 0 THEN "run_unlink" ELSE "start"
    /\ UNCHANGED <<last_call, waits, gArgs, gFs, gPath, manager, fd_listen, gReg, gBus, gMsg, gEnd>>
    /\ diag' = NULL

\* manager_run: sd_bus_add_filter() and sd_bus_start() on the controller link
ControllerStart ==
    /\ pc = "start"
    /\ \E ok \in BOOLEAN :
         IF ~ok
         THEN r' = error_origin(-ENOMEM) /\ pc' = "run_unlink" /\ UNCHANGED bus_controller
         ELSE bus_controller' = "started" /\ pc' = "opendir" /\ r' = r
    /\ UNCHANGED <<last_call, waits, gArgs, gFs, gPath, manager, fd_listen, gReg, bus_regular, ctl_out, gChild,
                   gMsg, gEnd>>
    /\ diag' = NULL

\* manager_load_services: opendir(); a missing directory is an empty one
OpenDir ==
    /\ pc = "opendir"
    /\ \E errno \in {0, ENOENT, EACCES} :
         IF errno = 0 THEN pc' = "load" /\ r' = r
         ELSE IF errno = ENOENT THEN pc' = "add_listener" /\ r' = r
         ELSE r' = error_trace(error_origin(-errno)) /\ pc' = "run_unlink"
    /\ UNCHANGED <<last_call, waits, gArgs, gFs, gPath, manager, fd_listen, gReg, gBus, gChild, gMsg, gEnd>>
    /\ diag' = NULL

\* manager_load_services: readdir() yields the entry de
LoadService ==
    /\ pc = "load"
    /\ n_files < MaxFiles
    /\ \E j \in (d_pos + 1)..Len(DirEntries), fail \in {"none"} \cup LoadFails :
         LET de == DirEntries[j] IN
         /\ n_files' = n_files + 1
         /\ d_pos' = j
         /\ files' = IF SkippedName(de.d_name) THEN files ELSE Append(files, de.f)
         /\ IF SkippedName(de.d_name)
            THEN pc' = pc /\ diag' = NULL /\ UNCHANGED <<services, service_ids, ctl_out, waits, r>>
            ELSE LET res == manager_load_service(services, service_ids, de.f, fail) IN
                 /\ services' = res.services
                 /\ service_ids' = res.service_ids
                 /\ ctl_out' = ctl_out \o res.calls
                 /\ waits' = waits \o res.waits
                 /\ diag' = res.diag
                 /\ r' = IF res.r # 0 THEN error_trace(error_trace(res.r)) ELSE r
                 /\ pc' = IF res.r # 0 THEN "run_unlink" ELSE pc
    /\ UNCHANGED <<last_call, gArgs, gFs, gPath, manager, fd_listen, bus_controller, bus_regular, gChild,
                   gMsg, gEnd>>

\* manager_load_services: readdir() yields no further entry, or fails
LoadServicesDone ==
    /\ pc = "load"
    /\ \E errno \in {0, EINVAL} :
         IF errno > 0
         THEN r' = error_trace(error_origin(-errno)) /\ pc' = "run_unlink"
         ELSE pc' = "add_listener" /\ r' = r
    /\ UNCHANGED <<last_call, waits, gArgs, gFs, gPath, manager, fd_listen, gReg, gBus, gChild, gMsg, gEnd>>
    /\ diag' = NULL

\* the policy file manager_add_listener reads
PolicyPath == IF main_arg_scope = "user" THEN "/usr/share/dbus-1/session.conf"
              ELSE "/usr/share/dbus-1/system.conf"

\* the AddListener call of manager_add_listener
AddListenerCall(fd, policypath) ==
    [member |-> "AddListener", path |-> "/org/bus1/DBus/Listener/0", name |-> policypath,
     fd |-> fd]

\* a variant of manager_add_listener that does not wait for the reply of the
\* call and reports success without it; C21 tells the two apart
manager_add_listener_unchecked(fd, policypath, fail) ==
    IF fail = "policy" THEN [r |-> error_fold(1), calls |-> <<>>, waits |-> <<>>]
    ELSE IF fail = "message" THEN [r |-> error_origin(-ENOMEM), calls |-> <<>>, waits |-> <<>>]
    ELSE IF fail = "call" THEN [r |-> 0, calls |-> <<>>, waits |-> <<>>]
    ELSE IF fail = "noreply" THEN [r |-> 0, calls |-> <<>>, waits |-> <<>>]
    ELSE [r |-> 0, calls |-> <<AddListenerCall(fd, policypath)>>,
          waits |-> <<Wait("AddListener", TRUE)>>]

\* manager_add_listener: what is the first step to fail: the policy
\* collaborators (a positive code of theirs), the message, the call
manager_add_listener(fd, policypath, fail) ==
    IF fail = "policy" THEN [r |-> error_fold(1), calls |-> <<>>, waits |-> <<>>]
    ELSE IF fail = "message" THEN [r |-> error_origin(-ENOMEM), calls |-> <<>>, waits |-> <<>>]
    ELSE IF fail = "call" THEN [r |-> error_origin(-EINVAL), calls |-> <<>>, waits |-> <<>>]
    ELSE IF fail = "noreply"
    THEN [r |-> error_origin(-ETIMEDOUT), calls |-> <<>>,
          waits |-> <<Wait("AddListener", FALSE)>>]
    ELSE [r |-> 0, calls |-> <<AddListenerCall(fd, policypath)>>,
          waits |-> <<Wait("AddListener", TRUE)>>]

\* manager_run: manager_add_listener; the reply has arrived when it returns 0
AddListener ==
    /\ pc = "add_listener"
    /\ \E fail \in {"none", "policy", "message", "call", "noreply"} :
         LET res == manager_add_listener(fd_listen, PolicyPath, fail) IN
         /\ ctl_out' = ctl_out \o res.calls
         /\ waits' = waits \o res.waits
         /\ r' = IF res.r # 0 THEN error_trace(res.r) ELSE r
         /\ pc' = IF res.r # 0 THEN "run_unlink" ELSE "connect"
    /\ UNCHANGED <<last_call, gArgs, gFs, gPath, manager, fd_listen, gReg, bus_controller, bus_regular,
                   gChild, gMsg, gEnd>>
    /\ diag' = NULL

\* manager_run: manager_connect, the regular link to the own listener
ManagerConnect ==
    /\ pc = "connect"
    /\ \E ok \in BOOLEAN :
         IF ~ok
         THEN r' = error_trace(error_origin(1)) /\ pc' = "run_unlink" /\ UNCHANGED bus_regular
         ELSE bus_regular' = "open" /\ pc' = "attach" /\ r' = r
    /\ UNCHANGED <<last_call, waits, gArgs, gFs, gPath, manager, fd_listen, gReg, bus_controller, ctl_out, gChild,
                   gMsg, gEnd>>
    /\ diag' = NULL

\* manager_run: both links are attached to the event loop
AttachEvents ==
    /\ pc = "attach"
    /\ \E ok \in BOOLEAN :
         IF ~ok
         THEN r' = error_origin(-ENOMEM) /\ pc' = "run_unlink"
         ELSE pc' = "loop" /\ r' = r
    /\ UNCHANGED <<last_call, waits, gArgs, gFs, gPath, manager, fd_listen, gReg, gBus, gChild, gMsg, gEnd>>
    /\ diag' = NULL


(* ------------------------------ event loop ---------------------------- *)

\* a variant of OnMessage in which the dispatch of a message for a registered
\* service takes the service out of the registry; C31 tells the two apart
OnMessage_forgets ==
    /\ pc = "loop"
    /\ \E m \in InMsgs :
         LET suffix == IF m.path = NULL THEN NULL ELSE c_string_prefix(m.path, NAME_PREFIX)
             e0s == IF suffix # NULL /\ HasService(services, suffix)
                    THEN LET sv == FindService(services, suffix) IN Exec0(sv.exec, sv.n_exec)
                    ELSE {NULL}
         IN  \E e0 \in e0s :
             \E f \in 0..manager_on_message(services, m, 0, e0).n :
                LET res == manager_on_message(services, m, f, e0) IN
                /\ in_msg' = m
                /\ sent' = res.sent
                /\ r_msg' = res.r
                /\ diag' = res.diag
                /\ services' = IF suffix # NULL THEN service_free(services, suffix)
                               ELSE services
    /\ pc' = "dispatched"
    /\ UNCHANGED <<last_call, waits, gArgs, gFs, gPath, manager, fd_listen, service_ids, n_files,
                   d_pos, files, gBus, gChild, r, gEnd>>

\* the loop dispatches the inbound controller-link message m to the filter; f is
\* the library call that fails during the dispatch (0: none)
OnMessage ==
    /\ pc = "loop"
    /\ \E m \in InMsgs :
         LET suffix == IF m.path = NULL THEN NULL ELSE c_string_prefix(m.path, NAME_PREFIX)
             e0s == IF suffix # NULL /\ HasService(services, suffix)
                    THEN LET sv == FindService(services, suffix) IN Exec0(sv.exec, sv.n_exec)
                    ELSE {NULL}
         IN  \E e0 \in e0s :
             \E f \in 0..manager_on_message(services, m, 0, e0).n :
                LET res == manager_on_message(services, m, f, e0) IN
                /\ in_msg' = m
                /\ sent' = res.sent
                /\ r_msg' = res.r
                /\ diag' = res.diag
    /\ pc' = "dispatched"
    /\ UNCHANGED <<last_call, waits, gArgs, gFs, gPath, manager, fd_listen, gReg, gBus, gChild, r, gEnd>>

\* the dispatch is over: the message is released and the regular link's queue is
\* written out. What the loop does with a failure of the filter is the library's
\* business: it goes on, or sd_event_loop() returns the failure
LoopNext ==
    /\ pc = "dispatched"
    /\ in_msg' = NoInMsg
    /\ sent' = <<>>
    /\ r_msg' = 0
    /\ \E stop \in BOOLEAN :
         IF r_msg < 0 /\ stop
         THEN r' = error_origin(r_msg) /\ pc' = "run_unlink"
         ELSE r' = r /\ pc' = "loop"
    /\ UNCHANGED <<last_call, waits, gArgs, gFs, gPath, manager, fd_listen, gReg, gBus, gChild, gEnd>>
    /\ diag' = NULL

\* the broker ends, by itself or by a signal, while manager_run is at work
\* (once the loop has ended the launcher no longer looks at the broker; an end
\* during a dispatch is seen as one right after it, SIGCHLD being blocked)
ChildDies ==
    /\ child.state = "running"
    /\ pc \in {"start", "opendir", "load", "add_listener", "connect", "attach", "loop"}
    /\ child' = [child EXCEPT !.state = "zombie"]
    /\ UNCHANGED <<last_call, waits, pc, gArgs, gFs, gPath, manager, fd_listen, gReg, gBus, fd_controller,
                   watcher, gMsg, r, diag, gEnd>>

\* a variant of manager_on_child_exit that hands on si_status whatever si_code
\* says; C28 tells the two apart
manager_on_child_exit_status(si) == si.si_status

\* manager_on_child_exit: the code handed to sd_event_exit()
manager_on_child_exit(si) == IF si.si_code = "CLD_EXITED" THEN si.si_status ELSE EXIT_FAILURE

\* manager_run: what it returns once sd_event_loop() returned code
LoopResult(code) == IF code < 0 THEN error_origin(code) ELSE IF code > 0 THEN MAIN_FAILED ELSE 0

\* the child watcher fires with the siginfo of the broker; the loop ends with
\* the code of manager_on_child_exit
OnChildExit ==
    /\ pc = "loop"
    /\ watcher
    /\ child.state = "zombie"
    /\ \E si \in ChildExits :
         /\ child' = [state |-> "reaped", si_code |-> si.si_code, si_status |-> si.si_status]
         /\ r' = LoopResult(manager_on_child_exit(si))
    /\ watcher' = FALSE
    /\ pc' = "run_unlink"
    /\ UNCHANGED <<last_call, waits, gArgs, gFs, gPath, manager, fd_listen, gReg, gBus, fd_controller, gMsg,
                   gEnd>>
    /\ diag' = NULL

\* SIGTERM or SIGINT ends the loop with code 0
OnTerminate ==
    /\ pc = "loop"
    /\ r' = LoopResult(0)
    /\ pc' = "run_unlink"
    /\ UNCHANGED <<last_call, waits, gArgs, gFs, gPath, manager, fd_listen, gReg, gBus, gChild, gMsg, gEnd>>
    /\ diag' = NULL

(* ------------------------------ the way out --------------------------- *)

\* a variant of RunUnlink that removes the socket only after manager_run
\* succeeded; C30 tells the two apart
RunUnlink_on_success ==
    /\ pc = "run_unlink"
    /\ \E uok \in BOOLEAN :
         LET r0 == error_trace(r) IN
         IF unlink_path # NULL /\ r0 = 0
         THEN LET u == unlink(fs, unlink_path, uok) IN
              /\ fs' = u.fs
              /\ unlinked' = IF u.r = 0 THEN Append(unlinked, unlink_path) ELSE unlinked
              /\ r' = IF u.r < 0 THEN error_origin(u.r) ELSE u.r
         ELSE UNCHANGED gFs /\ r' = r0
    /\ pc' = "free"
    /\ UNCHANGED <<last_call, waits, gArgs, gPath, manager, fd_listen, gReg, gBus, gChild, gMsg, gEnd>>
    /\ diag' = NULL

\* run(): after manager_run, the socket this run bound is removed
RunUnlink ==
    /\ pc = "run_unlink"
    /\ \E uok \in BOOLEAN :
         LET r0 == error_trace(r) IN
         IF unlink_path # NULL
         THEN LET u == unlink(fs, unlink_path, uok) IN
              /\ fs' = u.fs
              /\ unlinked' = IF u.r = 0 THEN Append(unlinked, unlink_path) ELSE unlinked
              /\ r' = IF u.r < 0 THEN error_origin(u.r) ELSE u.r
         ELSE UNCHANGED gFs /\ r' = r0
    /\ pc' = "free"
    /\ UNCHANGED <<last_call, waits, gArgs, gPath, manager, fd_listen, gReg, gBus, gChild, gMsg, gEnd>>
    /\ diag' = NULL

\* bus_close_unref: sd_bus_close() and sd_bus_unref(), nothing is flushed
bus_close_unref(bus) == IF bus = "none" THEN bus ELSE "closed"

\* a variant of manager_free that releases in the opposite order; C17 tells the
\* two apart
manager_free_reversed(svcs, fd, regular, controller) ==
    (IF regular # "none" THEN <<"bus_regular">> ELSE <<>>)
    \o (IF controller # "none" THEN <<"bus_controller">> ELSE <<>>)
    \o (IF fd >= 0 THEN <<"fd_listen">> ELSE <<>>)
    \o (IF svcs # {} THEN <<"services">> ELSE <<>>)
    \o <<"event">>

\* manager_free: what it releases, in its order
manager_free(svcs, fd, regular, controller) ==
    (IF svcs # {} THEN <<"services">> ELSE <<>>)
    \o (IF fd >= 0 THEN <<"fd_listen">> ELSE <<>>)
    \o (IF regular # "none" THEN <<"bus_regular">> ELSE <<>>)
    \o (IF controller # "none" THEN <<"bus_controller">> ELSE <<>>)
    \o <<"event">>

\* run() returns: the cleanup of its manager variable
ManagerFree ==
    /\ pc = "free"
    /\ manager = "live"
    /\ freed' = freed \o manager_free(services, fd_listen, bus_regular, bus_controller)
    /\ services' = {}
    /\ bus_regular' = bus_close_unref(bus_regular)
    /\ bus_controller' = bus_close_unref(bus_controller)
    /\ manager' = "freed"
    /\ pc' = "exit"
    /\ UNCHANGED <<last_call, waits, gArgs, gFs, gPath, fd_listen, service_ids, n_files, d_pos, files, ctl_out, gChild, gMsg,
                   r, exit_status>>
    /\ diag' = NULL

\* main(): the exit status
main_status(res) == IF error_trace(res) = 0 \/ error_trace(res) = MAIN_EXIT THEN 0 ELSE 1

MainReturn ==
    /\ pc = "exit"
    /\ exit_status' = main_status(r)
    /\ pc' = "done"
    /\ UNCHANGED <<last_call, waits, gArgs, gFs, gPath, manager, fd_listen, gReg, gBus, gChild, gMsg, r, freed>>
    /\ diag' = NULL

Next ==
    \/ ParseArgv
    \/ RunStart
    \/ RunListenInherit
    \/ RunListenPath
    \/ RunListenInvalid
    \/ ManagerRunSetup
    \/ ManagerFork
    \/ ControllerStart
    \/ OpenDir
    \/ LoadService
    \/ LoadServicesDone
    \/ AddListener
    \/ ManagerConnect
    \/ AttachEvents
    \/ OnMessage
    \/ LoopNext
    \/ ChildDies
    \/ OnChildExit
    \/ OnTerminate
    \/ RunUnlink
    \/ ManagerFree
    \/ MainReturn

Spec == Init /\ [][Next]_vars

\* a caller that asks for a listener once more, in either way, on a Manager
\* that already holds one, before manager_run is entered; run() never does.
\* n is what sd_listen_fds() returns to the second call
Reacquire ==
    /\ pc = "manager_run"
    /\ fd_listen >= 0
    /\ \E inherit \in BOOLEAN, n \in {0, 1}, p \in FsPaths, sock \in BOOLEAN, ok \in BOOLEAN :
         LET a == manager_listen_inherit(fd_listen, n, IF sock THEN 1 ELSE 0, ok, ok)
             b == manager_listen_path(fd_listen, p, fs, sock, ok, ok, FALSE)
             abort == IF inherit THEN a.abort ELSE b.abort
             res == IF inherit THEN a.r ELSE b.r
         IN  /\ fd_listen' = IF inherit THEN a.fd_listen ELSE b.fd_listen
             /\ fs' = IF inherit THEN fs ELSE b.fs
             /\ diag' = IF inherit THEN a.diag ELSE NULL
             /\ r' = IF abort \/ res = 0 THEN r ELSE error_trace(res)
             /\ pc' = IF abort THEN "aborted" ELSE IF res # 0 THEN "free" ELSE pc
    /\ UNCHANGED <<last_call, waits, gArgs, unlinked, gPath, manager, gReg, gBus, gChild, gMsg, gEnd>>

NextListener ==
    \/ Next
    \/ Reacquire

\* the launcher, and callers that acquire the listener more than once
SpecListener == Init /\ [][NextListener]_vars

\* the steps the launcher takes by itself: they need no input and nothing holds
\* them back
Launcher ==
    \/ ParseArgv
    \/ RunStart
    \/ RunListenInherit
    \/ RunListenPath
    \/ RunListenInvalid
    \/ ManagerRunSetup
    \/ ManagerFork
    \/ ControllerStart
    \/ OpenDir
    \/ LoadService
    \/ LoadServicesDone
    \/ AddListener
    \/ ManagerConnect
    \/ AttachEvents
    \/ LoopNext
    \/ RunUnlink
    \/ ManagerFree
    \/ MainReturn

\* the launcher under its scheduling: its own steps are taken, and the event loop
\* dispatches a pending child event even while messages keep arriving; messages
\* and signals may or may not come
SpecFair == Init /\ [][Next]_vars /\ WF_vars(Launcher) /\ SF_vars(OnChildExit)

(* ------------------------------ test_basic ---------------------------- *)

\* the argument expressions test_basic hands to the macros, and the plain
\* variable
ArgExprs == {"0", "1", "r", "--r"}

\* C evaluates the expression e once, the variable r holding x: its value v, and
\* what r holds afterwards
Eval(e, x) ==
    IF e = "0" THEN [v |-> 0, x |-> x]
    ELSE IF e = "1" THEN [v |-> 1, x |-> x]
    ELSE IF e = "--r" THEN [v |-> x - 1, x |-> x - 1]
    ELSE [v |-> x, x |-> x]

\* a macro that names its argument twice; C13 tells the two apart
Call_twice(macro, e, x) ==
    LET a == Eval(e, x)
        b == Eval(e, a.x)
    IN  [macro |-> macro, expr |-> e, r0 |-> x, arg |-> b.v, evals |-> 2]

\* the call macro(e): the argument is evaluated, once, to arg
Call(macro, e, x) ==
    LET a == Eval(e, x) IN
    [macro |-> macro, expr |-> e, r0 |-> x, arg |-> a.v, evals |-> 1]

\* the value of the macro for the argument value v
ErrorMacro(macro, v) ==
    IF macro = "error_origin" THEN error_origin(v)
    ELSE IF macro = "error_trace" THEN error_trace(v)
    ELSE error_fold(v)

gLauncher == <<gArgs, gFs, gPath, manager, fd_listen, gReg, gBus, gChild, gMsg, diag, gEnd,
               waits>>

\* test_basic starts from any error code in r
InitError ==
    /\ pc = "test_basic"
    /\ r \in -MaxErr..MaxErr
    /\ last_call = NoCall
    /\ waits = <<>>
    /\ argv = <<>>
    /\ fs = {}
    /\ listen_fds = 0
    /\ unlinked = <<>>
    /\ main_arg_listen = NULL
    /\ main_arg_force = FALSE
    /\ main_arg_scope = "system"
    /\ listen_path = NULL
    /\ path = NULL
    /\ unlink_path = NULL
    /\ manager = "none"
    /\ fd_listen = -1
    /\ services = {}
    /\ service_ids = 0
    /\ n_files = 0
    /\ d_pos = 0
    /\ files = <<>>
    /\ bus_controller = "none"
    /\ bus_regular = "none"
    /\ ctl_out = <<>>
    /\ fd_controller = "none"
    /\ child = NoChild
    /\ watcher = FALSE
    /\ in_msg = NoInMsg
    /\ sent = <<>>
    /\ r_msg = 0
    /\ diag = NULL
    /\ exit_status = -1
    /\ freed = <<>>

\* r = macro(e);
TestCall(macro, e) ==
    LET c == Call(macro, e, r) IN
    /\ last_call' = c
    /\ r' = ErrorMacro(macro, c.arg)

\* r = error_origin(e);
TestOrigin ==
    /\ pc = "test_basic"
    /\ r \in -MaxErr..MaxErr
    /\ \E e \in ArgExprs : TestCall("error_origin", e)
    /\ UNCHANGED <<pc, gLauncher>>

\* r = error_trace(e);
TestTrace ==
    /\ pc = "test_basic"
    /\ r \in -MaxErr..MaxErr
    /\ \E e \in ArgExprs : TestCall("error_trace", e)
    /\ UNCHANGED <<pc, gLauncher>>

\* r = error_fold(e);
TestFold ==
    /\ pc = "test_basic"
    /\ r \in -MaxErr..MaxErr
    /\ \E e \in ArgExprs : TestCall("error_fold", e)
    /\ UNCHANGED <<pc, gLauncher>>

NextError ==
    \/ TestOrigin
    \/ TestTrace
    \/ TestFold

\* test_basic, with any sequence of calls on any codes
SpecError == InitError /\ [][NextError]_vars


(* ------------------------------ properties ---------------------------- *)

\* the states in which run() has returned or is returning
Returning == {"free", "exit", "done"}

\* the ActivationRequest signal for unit, as it reaches the service manager
ActivationRequest(unit) ==
    [type |-> "signal", dest |-> "org.freedesktop.systemd1", path |-> "/org/freedesktop/DBus",
     iface |-> "org.freedesktop.systemd1.Activator", member |-> "ActivationRequest",
     body |-> <<Str(unit)>>]

\* the StartTransientUnit call for the service name with the command line exec
StartTransientUnit(name, exec) ==
    [type |-> "method_call", dest |-> "org.freedesktop.systemd1",
     path |-> "/org/freedesktop/systemd1", iface |-> "org.freedesktop.systemd1.Manager",
     member |-> "StartTransientUnit",
     body |-> << Str("dbus-" \o name \o ".service"),
                 Str("fail"),
                 Container("a", "(sv)",
                   << Container("r", "sv",
                        << Str("ExecStart"),
                           Container("v", "a(sasb)",
                             << Container("a", "(sasb)",
                                  << Container("r", "sasb",
                                       << Str(exec[1]),
                                          Container("a", "s",
                                                    [i \in 1..Len(exec) |-> Str(exec[i])]),
                                          Bool(TRUE) >>) >>) >>) >>) >>),
                 Container("a", "(sa(sv))", <<>>) >>]

\* the SetEnvironment call for the mapping env
SetEnvironment(env) ==
    [type |-> "method_call", dest |-> "org.freedesktop.systemd1",
     path |-> "/org/freedesktop/systemd1", iface |-> "org.freedesktop.systemd1.Manager",
     member |-> "SetEnvironment",
     body |-> << Container("a", "s",
                           [i \in 1..Len(env) |-> Str(env[i][1] \o "=" \o env[i][2])]) >>]

\* C1: the dispatch of one Activate signal for a registered service that has a
\* unit and is not the service manager sends exactly one ActivationRequest
\* signal, addressed to the service manager and carrying the unit, unless a
\* library call fails, and then it sends nothing; it never sends a
\* StartTransientUnit call
C1_UnitActivation ==
    \A s \in services :
        (pc = "dispatched" /\ in_msg = Activate(s.id) /\ s.name # SYSTEMD1 /\ s.unit # NULL)
        => /\ r_msg = 0 => sent = <<ActivationRequest(s.unit)>>
           /\ r_msg # 0 => sent = <<>>
           /\ \A i \in 1..Len(sent) : sent[i].member # "StartTransientUnit"

C1_Witness ==
    \E s \in services :
        /\ pc = "dispatched"
        /\ in_msg = Activate(s.id)
        /\ s.name = "baz" /\ s.unit = "baz.service" /\ s.has_exec
        /\ r_msg = 0
        /\ Len(sent) = 1 /\ sent[1].member = "ActivationRequest"

\* C2: the dispatch of one Activate signal for a registered service N that has
\* no unit, a command line e0, e1, ... and is not the service manager sends
\* exactly one StartTransientUnit call: unit "dbus-N.service", mode "fail", the
\* one property ExecStart with the one entry (e0, the whole command line,
\* true), and an empty list of auxiliary units, unless a library call fails,
\* and then it sends nothing; it never sends an ActivationRequest signal
C2_ExecActivation ==
    \A s \in services :
        (pc = "dispatched" /\ in_msg = Activate(s.id) /\ s.name # SYSTEMD1 /\ s.unit = NULL
         /\ s.n_exec >= 1)
        => /\ r_msg = 0 => sent = <<StartTransientUnit(s.name, s.exec)>>
           /\ r_msg # 0 => sent = <<>>
           /\ \A i \in 1..Len(sent) : sent[i].member # "ActivationRequest"

C2_Witness ==
    \E s \in services :
        /\ pc = "dispatched"
        /\ in_msg = Activate(s.id)
        /\ s.name = "bar" /\ s.unit = NULL /\ s.exec = <<"/bin/x", "--a">>
        /\ r_msg = 0
        /\ Len(sent) = 1 /\ sent[1].member = "StartTransientUnit"

\* C3: the dispatch of an Activate signal for a registered service that carries
\* the service manager's own name sends nothing on the regular link, issues
\* nothing on the controller link and returns 0, whatever the service holds
C3_Step ==
    \A s \in services :
        (pc = "loop" /\ pc' = "dispatched" /\ in_msg' = Activate(s.id) /\ s.name = SYSTEMD1)
        => (sent' = <<>> /\ ctl_out' = ctl_out /\ r_msg' = 0)

C3_OwnName == [][C3_Step]_vars

C3_Witness ==
    \E s, t \in services :
        /\ pc = "dispatched"
        /\ s.name = SYSTEMD1 /\ s.unit # NULL
        /\ t.name = SYSTEMD1 /\ t.unit = NULL /\ t.n_exec >= 1
        /\ in_msg = Activate(t.id)
        /\ sent = <<>> /\ r_msg = 0

\* C4: the dispatch of an Activate signal whose id is not in the registry sends
\* nothing on the regular link, issues nothing on the controller link and
\* returns 0, and the loop goes on with the result of the run untouched
C4_Step ==
    \A id \in ActivateIds :
        /\ (pc = "loop" /\ pc' = "dispatched" /\ in_msg' = Activate(id)
            /\ ~HasService(services, id))
           => (sent' = <<>> /\ ctl_out' = ctl_out /\ r_msg' = 0)
        /\ (pc = "dispatched" /\ in_msg = Activate(id) /\ ~HasService(services, id)
            /\ pc' # pc)
           => (pc' = "loop" /\ r' = r /\ exit_status' = -1)

C4_UnknownId == [][C4_Step]_vars

C4_Witness ==
    /\ pc = "dispatched"
    /\ services # {}
    /\ in_msg = Activate("2")
    /\ ~HasService(services, "2")
    /\ sent = <<>> /\ r_msg = 0
    /\ diag = "Activation request on unknown name"

\* C5: the dispatch of one SetActivationEnvironment signal with the entries
\* (k1, v1), ..., (kn, vn) sends exactly one SetEnvironment call whose only
\* argument is the list "k1=v1", ..., "kn=vn" in that order, unless a library
\* call fails, and then it sends nothing
C5_SetEnvironment ==
    (pc = "dispatched" /\ in_msg.path = BROKER_PATH
     /\ is_signal(in_msg, "org.bus1.DBus.Broker", "SetActivationEnvironment"))
    => /\ r_msg = 0 => sent = <<SetEnvironment(in_msg.env)>>
       /\ r_msg # 0 => sent = <<>>

C5_Witness ==
    /\ pc = "dispatched"
    /\ in_msg = SetActivationEnvironment(<< <<"B", "2">>, <<"A", "1">> >>)
    /\ r_msg = 0
    /\ Len(sent) = 1
    /\ sent[1].body = << Container("a", "s", <<Str("B=2"), Str("A=1")>>) >>

\* a definition with a name and exactly one of unit and exec
WellFormed(f) == f.loads /\ f.name # NULL /\ ((f.unit # NULL) # f.has_exec)

\* a definition that cannot be loaded, or lacks the name, or has neither
Malformed(f) == ~f.loads \/ f.name = NULL \/ (f.unit = NULL /\ ~f.has_exec)

IsAddName(call) == call.member = "AddName"

\* the states in which the service directory is being read or has been read
\* without a failure
Loaded == {"load", "add_listener", "connect", "attach", "loop", "dispatched"}

C6_Inv ==
    /\ \A s \in services : \E k \in 1..service_ids : s.id = Dec(k)
    /\ \A s, t \in services : s.id = t.id => s = t
    /\ (pc \in Loaded /\ \A i \in 1..Len(files) : WellFormed(files[i]) \/ Malformed(files[i]))
       => LET wf == SelectSeq(files, WellFormed)
              N == Len(wf)
          IN  /\ service_ids = N
              /\ Cardinality(services) = N
              /\ \A k \in 1..N :
                   \E s \in services :
                      /\ s.id = Dec(k)
                      /\ s.name = wf[k].name
                      /\ s.unit = wf[k].unit
                      /\ s.exec = wf[k].exec
              /\ SelectSeq(ctl_out, IsAddName)
                   = [k \in 1..N |-> AddName("/org/bus1/DBus/Name/" \o Dec(k), wf[k].name)]

C6_Step ==
    /\ service_ids' >= service_ids
    /\ \A s \in services' \ services :
          service_ids' = service_ids + 1 /\ s.id = Dec(service_ids + 1)

\* C6: every id in the registry is the decimal form of a value the counter has
\* taken, the first being 1, no two services share an id, the counter never
\* goes back and a new service gets the value that follows it; so N well-formed
\* definitions, with any malformed ones among them, give N services with the
\* ids "1".."N", announced in that order
C6_Ids == []C6_Inv /\ [][C6_Step]_vars

C6_Witness ==
    /\ pc = "loop"
    /\ Len(files) = 3
    /\ WellFormed(files[1]) /\ Malformed(files[2]) /\ WellFormed(files[3])
    /\ {s.id : s \in services} = {"1", "2"}

\* the listener descriptor of the Manager
ListenerState ==
    IF manager = "freed" /\ fd_listen >= 0 THEN "Closed"
    ELSE IF fd_listen < 0 THEN "Unset"
    ELSE IF fd_listen = SD_LISTEN_FDS_START THEN "Inherited"
    ELSE "Bound"

C7_Step ==
    /\ ListenerState' # ListenerState
       => \/ /\ ListenerState = "Unset"
             /\ pc = "listen"
             /\ ListenerState' = IF path = "inherit" THEN "Inherited" ELSE "Bound"
          \/ /\ ListenerState \in {"Inherited", "Bound"}
             /\ pc = "free"
             /\ ListenerState' = "Closed"
    /\ fd_listen >= 0 => fd_listen' = fd_listen
    /\ Reacquire => (pc' = "aborted" /\ fs' = fs)
    /\ (child.state = "none" /\ child'.state # "none")
       => (ListenerState \in {"Inherited", "Bound"} /\ ListenerState' = ListenerState)

\* C7: the listener goes from Unset to Inherited or Bound in an acquisition and
\* from there to Closed in the teardown, and makes no other move; a descriptor
\* once set is never replaced; an acquisition on a Manager that holds a
\* listener ends the process in the assertion; the broker is forked only
\* while the listener is Inherited or Bound
C7_Listener == [][C7_Step]_vars

C7_Witness ==
    /\ pc = "aborted"
    /\ fd_listen = SOCKET_FD
    /\ Entry(path, "listener") \in fs
    /\ child = NoChild

\* C8: when "inherit" is asked for and no descriptor, or more than one, was
\* passed, the acquisition fails with the line of its case on stderr, the
\* listener stays unset, no broker is forked and the process ends with status 1
C8_InheritCount ==
    (path = "inherit" /\ (listen_fds = 0 \/ listen_fds > 1) /\ pc # "listen")
    => /\ pc \in Returning
       /\ r = MAIN_FAILED
       /\ fd_listen = -1
       /\ child = NoChild
       /\ pc = "free" => diag = IF listen_fds = 0
                                THEN "No listener socket inherited"
                                ELSE "More than one listener socket passed"
       /\ pc = "done" => exit_status = 1

C8_Witness ==
    /\ pc = "done"
    /\ path = "inherit"
    /\ listen_fds = 2
    /\ fd_listen = -1
    /\ exit_status = 1

C9_Step ==
    (pc = "listen" /\ main_arg_force /\ SubSeq(path, 1, 1) = "/" /\ Len(path) <= SUN_PATH_MAX
     /\ fd_listen < 0 /\ pc' # pc)
    => LET cleared == {e \in fs : e.path # path}
           removed == IF Exists(fs, path) THEN <<path>> ELSE <<>>
       IN  \/ /\ pc' = "manager_run"
              /\ fd_listen' = SOCKET_FD
              /\ fs' = cleared \cup {Entry(path, "listener")}
              /\ unlinked' = unlinked \o removed
              /\ unlink_path' = path
           \/ /\ pc' = "free"
              /\ Exists(fs, path)
              /\ r' = -EACCES
              /\ fd_listen' = -1
              /\ fs' = fs
              /\ unlinked' = unlinked
              /\ unlink_path' = NULL
           \/ /\ pc' = "free"
              /\ r' < 0 /\ r' # -ENOENT
              /\ fd_listen' = -1
              /\ fs' \in {cleared, cleared \cup {Entry(path, "listener")}}
              /\ unlinked' = unlinked \o removed
              /\ unlink_path' = NULL

\* C9: with --force, the acquisition at a path ends in one of three ways: the
\* entry found at the path is gone and the listener is bound at the path; the
\* entry could not be removed, and the run ends with that failure, nothing
\* bound, nothing removed; or the path was cleared (or was free, which is no
\* failure) and socket(), bind() or listen() failed
C9_Force == [][C9_Step]_vars

C9_Witness ==
    /\ pc = "manager_run"
    /\ main_arg_force
    /\ unlinked = <<path>>
    /\ Entry(path, "listener") \in fs
    /\ Entry(path, "stale") \notin fs
    /\ fd_listen = SOCKET_FD

C10_Inv ==
    (~main_arg_force /\ SubSeq(path, 1, 1) = "/" /\ Entry(path, "stale") \in fs
     /\ pc # "listen")
    => /\ pc \in Returning
       /\ r \in {-EADDRINUSE, -ENOMEM}
       /\ fd_listen = -1
       /\ child = NoChild
       /\ unlinked = <<>>
       /\ pc = "done" => exit_status = 1

C10_Step ==
    (pc = "listen" /\ ~main_arg_force /\ SubSeq(path, 1, 1) = "/" /\ Exists(fs, path)
     /\ pc' # pc)
    => /\ pc' = "free"
       /\ r' \in {-EADDRINUSE, -ENOMEM}
       /\ fd_listen' = -1
       /\ fs' = fs

\* C10: without --force, the acquisition at a path that holds an entry fails
\* with the error of bind(), EADDRINUSE (or that of socket(), when no socket
\* could be made), and leaves the entry alone; the listener stays unset, no
\* broker is forked and the process ends with status 1
C10_NoForce == []C10_Inv /\ [][C10_Step]_vars

C10_Witness ==
    /\ pc = "done"
    /\ ~main_arg_force
    /\ Entry(path, "stale") \in fs
    /\ r = -EADDRINUSE
    /\ fd_listen = -1
    /\ child = NoChild
    /\ exit_status = 1

(* --------------------------- exit status ------------------------------ *)

\* the broker ended by a non-zero exit or by a signal, and the launcher saw it
BrokerFailed ==
    /\ child.state = "reaped"
    /\ (child.si_code # "CLD_EXITED" \/ child.si_status # 0)

\* C11: the broker's exit status is never masked: once the launcher has reaped
\* a broker that exited with a non-zero status or was killed by a signal, the
\* launcher's own exit status is non-zero, whether the listener was inherited
\* or bound at a path
C11_BrokerStatus ==
    pc = "done" /\ BrokerFailed => exit_status # 0

\* C11, the inherited mode alone, where nothing follows manager_run in run()
C11_Inherited ==
    pc = "done" /\ BrokerFailed /\ unlink_path = NULL => exit_status = 1

\* C11: a failed broker was reaped in either mode and the launcher has returned
C11_Witness ==
    /\ pc = "done"
    /\ BrokerFailed
    /\ unlink_path = NULL
    /\ path = "inherit"
    /\ exit_status = 1

\* the listener was acquired and manager_run gave up before the regular link was
\* connected: one of socketpair, sd_bus_set_fd, fork, the controller's start,
\* service loading, AddListener or the connect failed
BootstrapFailed ==
    /\ fd_listen >= 0
    /\ manager = "freed"
    /\ \A i \in 1..Len(freed) : freed[i] # "bus_regular"

\* C12, the final states: a run whose bootstrap failed ends with status 1
C12_Inv ==
    pc = "done" /\ BootstrapFailed => exit_status = 1

\* C12, the handover: a non-zero result of manager_run (a failed bootstrap step,
\* the event attach included, or a failed loop) leaves run() as a result that
\* main() turns into status 1
C12_Step ==
    pc = "run_unlink" /\ r # 0 /\ pc' = "free" => main_status(r') = 1

\* C12: every failure of a bootstrap step after the listener was acquired makes
\* the launcher exit with status 1, in the path-bound mode as well as in the
\* inherited mode
C12_FailureStatus == []C12_Inv /\ [][C12_Step]_vars

(* --------------------------- error macros ----------------------------- *)

\* the call r = macro(e) was the last thing test_basic did
Called(macro) == pc = "test_basic" /\ last_call.macro = macro

\* the argument was evaluated exactly once: it was counted once, and the
\* decrement of --r took place once
EvaluatedOnce ==
    /\ last_call.evals = 1
    /\ last_call.expr = "--r" => last_call.arg = last_call.r0 - 1
    /\ last_call.expr = "r" => last_call.arg = last_call.r0

\* C13: error_origin maps 0 to 0, every positive value to a negative value and a
\* negative value to itself, so it never returns a positive value; its argument
\* is evaluated exactly once
C13_Origin ==
    Called("error_origin") =>
        /\ last_call.arg = 0 => r = 0
        /\ last_call.arg > 0 => r < 0
        /\ last_call.arg < 0 => r = last_call.arg
        /\ r <= 0
        /\ EvaluatedOnce

\* C13: r = error_origin(--r) was run with r = 0 and left r = -1
C13_Witness ==
    /\ Called("error_origin")
    /\ last_call.expr = "--r"
    /\ last_call.r0 = 0
    /\ r = -1

\* C14: error_trace is the identity on error codes, zero, negative or positive,
\* and its argument is evaluated exactly once
C14_Trace ==
    Called("error_trace") =>
        /\ r = last_call.arg
        /\ EvaluatedOnce

\* C14: error_trace was run on a positive code and on a decremented one
C14_Witness ==
    /\ Called("error_trace")
    /\ last_call.expr = "--r"
    /\ last_call.r0 = 2
    /\ r = 1

\* C15: error_fold maps 0 to 0 and every non-zero value to a negative value, a
\* negative one to itself, so its result is never positive; its argument is
\* evaluated exactly once
C15_Fold ==
    Called("error_fold") =>
        /\ last_call.arg = 0 => r = 0
        /\ last_call.arg # 0 => r < 0
        /\ last_call.arg < 0 => r = last_call.arg
        /\ r <= 0
        /\ EvaluatedOnce

\* C15: error_fold was run on a positive code
C15_Witness ==
    /\ Called("error_fold")
    /\ last_call.arg = 1
    /\ last_call.evals = 1
    /\ r < 0

(* ------------------------------ registry ------------------------------ *)

\* the key file was accepted by the parser and names a service
Named(f) == f.loads /\ f.name # NULL

\* C16, as stated: every Service in the registry has exactly one of unit and
\* exec set
C16_ExactlyOne ==
    \A s \in services : (s.unit # NULL) # s.has_exec

\* C16, amended: every Service in the registry has at least one of unit and exec
\* set (a definition with neither is skipped and constructs nothing, one with
\* both is constructed with both), and a skip for a missing unit and exec leaves
\* no Service of that name behind
C16_AtLeastOne ==
    /\ \A s \in services : s.unit # NULL \/ s.has_exec
    /\ \A s \in services :
         \E i \in 1..Len(files) :
            /\ Named(files[i])
            /\ files[i].name = s.name
            /\ files[i].unit = s.unit
            /\ files[i].has_exec = s.has_exec
            /\ files[i].unit # NULL \/ files[i].has_exec

\* C16: a definition with neither was read and skipped, and one with both a
\* unit and an exec became a Service with both
C16_Witness ==
    /\ pc = "load"
    /\ \E i \in 1..Len(files) :
          Named(files[i]) /\ files[i].unit = NULL /\ ~files[i].has_exec
    /\ \E s \in services : s.unit # NULL /\ s.has_exec

(* ------------------------------ teardown ------------------------------ *)

\* how often manager_free released x
Released(x) == Cardinality({i \in 1..Len(freed) : freed[i] = x})

\* whenever both were released, a was released before b
Before(a, b) ==
    \A i, j \in 1..Len(freed) : freed[i] = a /\ freed[j] = b => i < j

\* teardown happened at most once, and exactly once when run() has returned
\* with a Manager; the connections are then closed
TornDownOnce ==
    /\ \A x \in {"services", "fd_listen", "bus_regular", "bus_controller", "event"} :
          Released(x) <= 1
    /\ (manager = "freed") = (Released("event") = 1)
    /\ pc \in {"exit", "done"} /\ manager # "none" =>
          /\ manager = "freed"
          /\ bus_regular \in {"none", "closed"} /\ bus_controller \in {"none", "closed"}
          /\ (fd_listen >= 0) = (Released("fd_listen") = 1)
          /\ (bus_regular = "closed") = (Released("bus_regular") = 1)
          /\ (bus_controller = "closed") = (Released("bus_controller") = 1)
          /\ services = {}

\* C17, as stated: teardown happens exactly once per run and releases the
\* regular connection, then the controller connection, then the listener
\* descriptor, then the registry
C17_StatedOrder ==
    /\ TornDownOnce
    /\ Before("bus_regular", "bus_controller")
    /\ Before("bus_controller", "fd_listen")
    /\ Before("bus_regular", "fd_listen")
    /\ Before("fd_listen", "services")

\* C17, amended: teardown happens exactly once per run and drops the registry,
\* then closes the listener descriptor, then the regular connection, then the
\* controller connection (then the event loop is released); the connections are
\* closed, not flushed
C17_Teardown ==
    /\ TornDownOnce
    /\ Before("services", "fd_listen")
    /\ Before("fd_listen", "bus_regular")
    /\ Before("bus_regular", "bus_controller")
    /\ Before("bus_controller", "event")
    /\ Before("services", "bus_regular")
    /\ Before("fd_listen", "event")

\* C17: a Manager that held services, the listener and both connections was torn
\* down
C17_Witness ==
    /\ pc = "done"
    /\ freed = <<"services", "fd_listen", "bus_regular", "bus_controller", "event">>
    /\ bus_regular = "closed"
    /\ bus_controller = "closed"

(* ------------------------------ path limit ---------------------------- *)

\* run() has gone past the acquisition at a path longer than sun_path
PastLongPath ==
    /\ path # NULL
    /\ Len(path) > SUN_PATH_MAX
    /\ pc \notin {"main", "run", "listen"}

\* C18: a path longer than the socket-address path limit is rejected with an
\* error and without binding, and the copy into the address buffer never runs
\* past the buffer: the run goes on to return a negative result, no listener is
\* held or bound, and the process does not die of the copy
C18_PathLimit ==
    PastLongPath =>
        /\ pc \in Returning
        /\ r < 0
        /\ fd_listen < 0
        /\ \A e \in fs : e.kind # "listener"

(* ------------------------------ broker child -------------------------- *)

\* the broker has ended
ChildTerminated == child.state \in {"zombie", "reaped"}

\* a broker, once spawned, is neither replaced nor brought back, and the fork is
\* never reached a second time
C19_Step ==
    /\ child.state # "none" => child'.state # "none"
    /\ child.state \in {"zombie", "reaped"} => child'.state # "running"
    /\ pc # "fork" /\ pc' = "fork" => child.state = "none" /\ pc = "manager_run"

\* C19: exactly one broker is spawned per run and it is never restarted; once it
\* has terminated, at any point after the fork, the launcher eventually stops
\* its loop or aborts the bootstrap, and exits
C19_ChildEndsLauncher ==
    /\ [][C19_Step]_vars
    /\ (ChildTerminated ~> pc = "done")

\* C19, for a broker whose watcher was registered
C19_Watched ==
    /\ [][C19_Step]_vars
    /\ (ChildTerminated /\ (watcher \/ child.state = "reaped") ~> pc = "done")

\* C19: a watched broker ended while the loop ran, and the launcher has exited
C19_Witness ==
    /\ pc = "done"
    /\ child.state = "reaped"
    /\ child.si_code = "CLD_KILLED"

(* ------------------------------ user scope ---------------------------- *)

\* run() has computed the default path of the user scope
UserDefault ==
    /\ main_arg_scope = "user"
    /\ main_arg_listen = NULL
    /\ listen_path # NULL

\* C20: with the user scope and no --listen, the default path is derived from the
\* runtime directory (<runtime-dir>/bus, or the per-uid fallback), and the run
\* reaches the listener acquisition with that path as the path to bind
C20_UserScope ==
    UserDefault =>
        /\ listen_path \in {t \o "/bus" : t \in RuntimeDirs \ {NULL}} \cup {"/var/run/user/1000/bus"}
        /\ path = listen_path
        /\ pc # "crashed"

\* C20, the part about the derivation alone
C20_Derived ==
    UserDefault =>
        listen_path \in {t \o "/bus" : t \in RuntimeDirs \ {NULL}} \cup {"/var/run/user/1000/bus"}

\* C20: the default path was derived from the runtime directory in the user scope
C20_Witness ==
    /\ UserDefault
    /\ listen_path = "/run/user/1000/bus"
    /\ path = NULL

(* ------------------------------ bootstrap order ----------------------- *)

IsAddListener(c) == c.member = "AddListener"

\* the positions of the AddListener calls on the controller link
AddListenerAt == {i \in 1..Len(ctl_out) : IsAddListener(ctl_out[i])}

\* manager_run is over, or run() never got to it
Leaving == {"run_unlink", "free", "exit", "done"}

\* C21, the states: each bootstrap step has the earlier ones behind it
C21_Inv ==
    /\ child.state # "none" => fd_listen >= 0
    /\ ctl_out # <<>> => child.state # "none" /\ bus_controller \in {"started", "closed"}
    /\ Cardinality(AddListenerAt) <= 1
    /\ \A i \in 1..Len(ctl_out), j \in AddListenerAt : IsAddName(ctl_out[i]) => i < j
    /\ AddListenerAt # {} => pc \notin {"main", "run", "listen", "manager_run", "fork", "start",
                                         "opendir", "load", "add_listener"}
    /\ pc = "connect" => AddListenerAt # {}
    /\ bus_regular # "none" => AddListenerAt # {}
    /\ pc = "attach" => bus_regular = "open"
    /\ pc \in {"loop", "dispatched"} => bus_regular = "open" /\ AddListenerAt # {}

\* C21, the steps: once manager_run has given up or returned, nothing of the
\* bootstrap is done any more and the loop is not entered
C21_Step ==
    pc \in Leaving =>
        /\ pc' \in Leaving
        /\ ctl_out' = ctl_out
        /\ child' = child
        /\ bus_regular' \in {bus_regular, "closed"}
        /\ fd_listen' = fd_listen

\* C21: the bootstrap steps occur in the order listener, fork, AddName calls,
\* AddListener and its reply, connect of the regular link, loop; the regular
\* link is never connected before the AddListener reply, and after a failed step
\* no later step is performed and the loop is never entered
C21_BootstrapOrder == []C21_Inv /\ [][C21_Step]_vars

\* C21: the loop was entered after AddName calls and the AddListener call
C21_Witness ==
    /\ pc = "loop"
    /\ Len(ctl_out) = 3
    /\ IsAddName(ctl_out[1])
    /\ IsAddListener(ctl_out[3])
    /\ bus_regular = "open"

(* ------------------------------ reply waits --------------------------- *)

\* how many AddName calls were issued
AddNames == Cardinality({i \in 1..Len(ctl_out) : IsAddName(ctl_out[i])})

\* the waits for a reply to member that ended with the reply (replied) or
\* without one
WaitsFor(member, replied) ==
    {i \in 1..Len(waits) : waits[i].member = member /\ waits[i].replied = replied}

Announced(s) ==
    {i \in 1..Len(ctl_out) : ctl_out[i] = AddName(NAME_PREFIX \o s.id, s.name)}

\* the AddName calls were issued in increasing order of the ids in their paths
IncreasingIds ==
    \A i, j \in 1..Len(ctl_out) :
        IsAddName(ctl_out[i]) /\ IsAddName(ctl_out[j]) /\ i < j =>
            \E a, b \in 1..service_ids :
                /\ a < b
                /\ ctl_out[i].path = NAME_PREFIX \o Dec(a)
                /\ ctl_out[j].path = NAME_PREFIX \o Dec(b)

\* C23: when the loop starts (and as long as the Manager lives) the services in
\* the registry are exactly those announced by one successful AddName call,
\* with the path /org/bus1/DBus/Name/<id> and the name, in increasing id order;
\* a service whose AddName call failed is not in the registry, and the run is
\* on its way out
C23_Announced ==
    /\ manager = "live" =>
          /\ \A s \in services : Cardinality(Announced(s)) = 1
          /\ \A i \in 1..Len(ctl_out) :
                IsAddName(ctl_out[i]) => \E s \in services : i \in Announced(s)
          /\ Cardinality(services) = AddNames
    /\ IncreasingIds
    /\ WaitsFor("AddName", FALSE) # {} => pc \in Leaving /\ Cardinality(services) <= AddNames
    /\ pc \in {"loop", "dispatched"} => manager = "live"

\* C23: the loop started with two announced services
C23_Witness ==
    /\ pc = "loop"
    /\ Cardinality(services) = 2
    /\ AddNames = 2
    /\ \E s \in services : s.id = "2" /\ Announced(s) = {2}

(* ------------------------------ dispatch routing ---------------------- *)

\* the rest of the path of the message dispatched last, after the per-service
\* prefix; NULL if it has no path or another one
IdOf(m) == IF m.path = NULL THEN NULL ELSE c_string_prefix(m.path, NAME_PREFIX)

\* the message dispatched last is the Activate signal on a service's path
ToActivate ==
    IdOf(in_msg) # NULL /\ is_signal(in_msg, "org.bus1.DBus.Name", "Activate")

\* the message dispatched last is the SetActivationEnvironment signal on the
\* broker's path
ToEnvironment ==
    /\ in_msg.path = BROKER_PATH
    /\ is_signal(in_msg, "org.bus1.DBus.Broker", "SetActivationEnvironment")

\* what the dispatch left behind is what handler h leaves
Left(h) == r_msg = error_trace(h.r) /\ sent = h.sent /\ diag = h.diag

\* C24, the states after a dispatch
C24_Inv ==
    pc = "dispatched" =>
        /\ \A i \in 1..Len(sent) :
              /\ sent[i].member \in {"ActivationRequest", "StartTransientUnit"} => ToActivate
              /\ sent[i].member = "SetEnvironment" => ToEnvironment
        /\ r_msg # 0 \/ diag # NULL => ToActivate \/ ToEnvironment
        /\ ToActivate =>
              \E e0 \in {NULL, GARBAGE} \cup {s.exec[1] : s \in {t \in services : t.n_exec > 0}} :
              \E f \in 0..manager_on_name_activate(services, IdOf(in_msg), 0, e0).n :
                 Left(manager_on_name_activate(services, IdOf(in_msg), f, e0))
        /\ ToEnvironment =>
              \E f \in 0..manager_on_set_activation_environment(in_msg.env, 0).n :
                 Left(manager_on_set_activation_environment(in_msg.env, f))
        /\ ~ToActivate /\ ~ToEnvironment => r_msg = 0 /\ sent = <<>> /\ diag = NULL

\* C24, the dispatch itself: it touches nothing but its own outcome
C24_Step ==
    pc = "loop" /\ pc' = "dispatched" =>
        UNCHANGED <<gArgs, gFs, gPath, manager, fd_listen, gReg, gBus, gChild, r, gEnd, waits>>

\* C24: the dispatch of an inbound controller-link message is decided by its
\* path: activation runs only for the Activate signal on a path with the
\* per-service prefix, with the rest of the path as the id; environment
\* forwarding runs only for the SetActivationEnvironment signal on the broker
\* path; every other message is ignored, with success, nothing sent and no
\* state changed
C24_Routing == []C24_Inv /\ [][C24_Step]_vars

\* C24: a message on a service's path with another member was ignored
C24_Witness ==
    /\ pc = "dispatched"
    /\ in_msg = InMsg("signal", NAME_PREFIX \o "1", "org.bus1.DBus.Name", "Release", <<>>)
    /\ \E s \in services : s.id = "1"
    /\ sent = <<>>
    /\ r_msg = 0

\* the dispatch of an Activate signal for the service s that starts a
\* transient unit
StartsTransient(s) ==
    /\ pc = "dispatched"
    /\ in_msg = Activate(s.id)
    /\ s.name # SYSTEMD1
    /\ s.unit = NULL

\* a StartTransientUnit call built to its end: unit, mode, the one property
\* and the empty list of auxiliary units
CompleteCall(w, name) ==
    /\ w.type = "method_call"
    /\ w.member = "StartTransientUnit"
    /\ Len(w.body) = 4
    /\ w.body[1] = Str("dbus-" \o name \o ".service")
    /\ w.body[2] = Str("fail")
    /\ w.body[3].t = "a" /\ Len(w.body[3].c) = 1
    /\ w.body[4] = Container("a", "(sa(sv))", <<>>)

\* the dispatch that starts a transient unit sent the whole call or nothing,
\* and so does the handler whichever of its library calls fails
C25_Inv ==
    \A s \in services :
        StartsTransient(s)
        => /\ \/ r_msg = 0 /\ Len(sent) = 1 /\ CompleteCall(sent[1], s.name)
              \/ r_msg < 0 /\ sent = <<>>
           /\ r_msg = 0 =>
              \A e0 \in Exec0(s.exec, s.n_exec) :
              \A f \in 0..Len(StartTransientUnitSteps(s.name, s.exec, s.n_exec, e0)) :
                 LET res == manager_start_transient_unit(s.name, s.exec, s.n_exec, f, e0)
                 IN  /\ f # 0 => (res.r < 0 /\ res.sent = <<>>)
                     /\ res.r # 0 => res.sent = <<>>
                     /\ res.sent # <<>>
                        => (res.r = 0 /\ Len(res.sent) = 1
                            /\ CompleteCall(res.sent[1], s.name))

\* C25: a StartTransientUnit call is sent only if every library call of
\* manager_start_transient_unit succeeded, the creation of the message, whose
\* result is not tested, included: whichever call fails, the handler returns a
\* negative value and sends nothing, and what it sends when none fails is the
\* call built to its end
C25_AllOrNothing == []C25_Inv

\* the creation of the message failed: the append that follows it finds no
\* message, and the handler returns its -EINVAL
C25_Witness ==
    \E s \in services :
        /\ StartsTransient(s)
        /\ s.n_exec >= 1
        /\ r_msg = -EINVAL
        /\ sent = <<>>

RECURSIVE Built(_, _, _)
\* the outcomes of the calls steps[i..] on the message m, one after the other,
\* up to the first that fails
Built(steps, i, m) ==
    IF i > Len(steps)
    THEN <<>>
    ELSE LET res == Apply(steps[i], m)
         IN  IF res.r < 0 THEN <<res>> ELSE <<res>> \o Built(steps, i + 1, res.m)

Reverse(q) == [i \in 1..Len(q) |-> q[Len(q) + 1 - i]]

IsOpen(st) == st.op = "open_container"
IsClose(st) == st.op = "close_container"

\* the building of the StartTransientUnit call for the service s keeps its
\* containers nested
Nested(s, e0) ==
    LET steps == StartTransientUnitSteps(s.name, s.exec, s.n_exec, e0)
        tr == Built(steps, 1, NoMsg)
        Stack(i) == IF i = 0 THEN <<>> ELSE tr[i].m.open
        Depth(i) == Len(Stack(i))
        closes == {i \in 1..Len(tr) : IsClose(steps[i])}
        whole == Len(tr) = Len(steps) /\ tr[Len(tr)].r >= 0
    IN  /\ \A i \in 1..Len(tr) :
             /\ IsOpen(steps[i]) /\ tr[i].r >= 0
                => /\ Depth(i) = Depth(i - 1) + 1
                   /\ Stack(i)[Depth(i)].t = steps[i].strs[1]
                   /\ Stack(i)[Depth(i)].s = steps[i].strs[2]
             /\ IsClose(steps[i])
                => /\ Depth(i - 1) > 0
                   /\ tr[i].r = 0
                   /\ Depth(i) = Depth(i - 1) - 1
                   /\ \A k \in 1..Depth(i) :
                         /\ Stack(i)[k].t = Stack(i - 1)[k].t
                         /\ Stack(i)[k].s = Stack(i - 1)[k].s
             /\ steps[i] = AppendItems(<<Container("a", "(sa(sv))", <<>>)>>)
                => Depth(i - 1) = 0
             /\ steps[i].op = "send" => Depth(i - 1) = 0
        /\ whole
           => /\ Cardinality(closes) = Cardinality({i \in 1..Len(tr) : IsOpen(steps[i])})
              /\ LET opened == SelectSeq(steps, IsOpen)
                     ci == SelectSeq([i \in 1..Len(tr) |-> i], LAMBDA i : i \in closes)
                 IN  [k \in 1..Len(ci) |-> Stack(ci[k] - 1)[Depth(ci[k] - 1)].s]
                       = Reverse([k \in 1..Len(opened) |-> opened[k].strs[2]])
              /\ Len(sent) = 1 => tr[Len(tr)].wire = sent

\* C26: while manager_start_transient_unit builds the body, every close finds
\* an open container and closes the one opened last, so the containers are
\* closed in the reverse of the order they were opened in, and none is open
\* when the list of auxiliary units is appended and when the call is sent
C26_Nesting ==
    [](\A s \in services :
          StartsTransient(s) => \A e0 \in Exec0(s.exec, s.n_exec) : Nested(s, e0))

C26_Witness ==
    \E s \in services :
        /\ StartsTransient(s)
        /\ s.n_exec = 2
        /\ r_msg = 0
        /\ Len(sent) = 1
        /\ sent[1].body[3]
             = Container("a", "(sv)",
                 << Container("r", "sv",
                      << Str("ExecStart"),
                         Container("v", "a(sasb)",
                           << Container("a", "(sasb)",
                                << Container("r", "sasb",
                                     << Str(s.exec[1]),
                                        Container("a", "s", <<Str(s.exec[1]), Str(s.exec[2])>>),
                                        Bool(TRUE) >>) >>) >>) >>) >>)

\* manager_run is past the fork step and goes on with the bootstrap or the loop
PastFork == {"start", "opendir", "load", "add_listener", "connect", "attach", "loop",
             "dispatched"}

\* C27: in the parent the broker's end of the controller pair is closed once
\* the fork step is over, by manager_fork or by manager_run, and never stays
\* open in a parent that goes on with the bootstrap
C27_ClosedOnce ==
    /\ pc \in PastFork => fd_controller = "closed"
    /\ fd_controller = "open" => pc = "fork"

\* what holds of the code: the two closes never both happen, a fork step that
\* registered the watcher or reported a failure leaves the descriptor closed,
\* and the descriptor stays open past the fork step exactly when the child was
\* forked and its watcher was not registered
C27_Closed ==
    /\ \A forked, added \in BOOLEAN, errno \in {0, ENOMEM} :
          LET res == manager_fork(forked, added, errno)
          IN  /\ ~(res.closed /\ res.r # 0)
              /\ res.closed <=> (forked /\ added)
              /\ (~res.closed /\ res.r = 0) <=> (forked /\ ~added /\ errno = 0)
    /\ watcher => fd_controller = "closed"
    /\ (fd_controller = "open" /\ pc # "fork") => (~watcher /\ child.state # "none")
    /\ fd_controller = "none" => child.state = "none"

\* the bootstrap went on with the descriptor open and the broker unwatched
C27_Witness ==
    /\ pc = "loop"
    /\ fd_controller = "open"
    /\ child.state = "running"
    /\ ~watcher

\* the siginfo the watcher was called with
SigInfo == [si_code |-> child.si_code, si_status |-> child.si_status]

\* once the watcher has fired, the code it handed to sd_event_exit() is the
\* broker's exit status after a normal exit and EXIT_FAILURE otherwise
C28_Inv ==
    /\ child.state = "reaped"
       => /\ ~watcher
          /\ child.si_code = "CLD_EXITED" => manager_on_child_exit(SigInfo) = child.si_status
          /\ child.si_code # "CLD_EXITED" => manager_on_child_exit(SigInfo) = EXIT_FAILURE
    /\ watcher => child.state \in {"running", "zombie"}

\* the watcher fires in the loop, for the broker this run spawned and that has
\* ended, ends the loop with the code of the handler, and never fires again
C28_Step ==
    /\ (child'.state = "reaped" /\ child.state # "reaped")
       => /\ pc = "loop" /\ watcher /\ child.state = "zombie"
          /\ ~watcher'
          /\ pc' = "run_unlink"
          /\ r' = LoopResult(IF child'.si_code = "CLD_EXITED"
                             THEN child'.si_status ELSE EXIT_FAILURE)
    /\ child.state = "reaped" => child' = child
    /\ (watcher' /\ ~watcher) => (pc = "fork" /\ child.state = "none" /\ child'.state = "running")

\* C28: when the child watcher fires, the loop is asked to exit with the
\* broker's exit status if the broker exited normally and with EXIT_FAILURE if
\* it was killed or dumped core; the watcher fires at most once, and only for
\* the broker this run spawned
C28_ChildExit == []C28_Inv /\ [][C28_Step]_vars

\* the watcher fired for a broker that a signal killed
C28_Witness ==
    /\ pc = "run_unlink"
    /\ child.state = "reaped"
    /\ child.si_code = "CLD_KILLED" /\ child.si_status = 15
    /\ r = MAIN_FAILED
    /\ manager_on_child_exit(SigInfo) = EXIT_FAILURE

\* this step handed a key file to manager_load_service
Handed == pc = "load" /\ Len(files') = Len(files) + 1

\* a skipped definition leaves the registry, the id counter and the controller
\* link as they were, writes its diagnostic, and the directory scan goes on
C29_Step ==
    (Handed /\ Malformed(files'[Len(files')]))
    => /\ services' = services
       /\ service_ids' = service_ids
       /\ ctl_out' = ctl_out
       /\ waits' = waits
       /\ r' = r
       /\ pc' = "load"
       /\ diag' \in {"Cannot load service file", "Missing name in service file",
                     "Missing exec or unit in service file"}
       /\ exit_status' = -1

\* the definitions handed over so far that were not skipped
NotSkipped == SelectSeq(files, LAMBDA f : ~Malformed(f))

C29_Inv ==
    /\ service_ids <= Len(NotSkipped)
    /\ Cardinality(services) <= Len(NotSkipped)
    /\ Len(SelectSeq(ctl_out, IsAddName)) <= Len(NotSkipped)
    /\ \A s \in services : \E i \in 1..Len(NotSkipped) : NotSkipped[i].name = s.name
    /\ (pc \in Loaded /\ NotSkipped = <<>>)
       => (services = {} /\ service_ids = 0 /\ AddNames = 0)

\* C29: a service definition that cannot be loaded, has no Name, or has neither
\* SystemdService nor Exec is skipped without a failure: no Service is created,
\* no id is used up, no AddName call is issued, the scan goes on with the next
\* entry and the bootstrap with the next step
C29_Skip == []C29_Inv /\ [][C29_Step]_vars

\* an unloadable definition and one with neither key were skipped, the
\* definition after them got the id 1, and the bootstrap reached the loop
C29_Witness ==
    /\ pc = "loop"
    /\ Len(files) = 3
    /\ ~files[1].loads
    /\ files[2].loads /\ files[2].name # NULL /\ files[2].unit = NULL /\ ~files[2].has_exec
    /\ ~Malformed(files[3])
    /\ {s.id : s \in services} = {"1"}
    /\ Len(SelectSeq(ctl_out, IsAddName)) = 1

\* the entry a bind() of this run made is in the filesystem
ListenerEntry == \E e \in fs : e.kind = "listener"

\* C30, as stated: an entry that a bind() of this run made is gone when run()
\* has returned, unless the unlink() at the end of run() was tried and failed
C30_Removed ==
    (pc \in Returning /\ ListenerEntry) => unlink_path # NULL

\* the listener is bound at a path: manager_listen_path succeeded
BoundAtPath == fd_listen = SOCKET_FD

C30_Inv ==
    /\ unlink_path # NULL <=> (BoundAtPath /\ pc \notin {"listen", "aborted", "crashed"})
    /\ unlink_path # NULL => unlink_path = path
    /\ (pc \in Returning /\ unlink_path # NULL)
       => \/ /\ ~Exists(fs, unlink_path)
             /\ unlinked # <<>> /\ unlinked[Len(unlinked)] = unlink_path
          \/ /\ Entry(unlink_path, "listener") \in fs
             /\ r = -EACCES
    /\ (pc \in Returning /\ unlink_path = NULL)
       => /\ unlinked \in {<<>>, <<path>>}
          /\ unlinked # <<>> => main_arg_force
    /\ (unlink_path # NULL /\ pc \notin Returning) => Entry(unlink_path, "listener") \in fs

C30_Step ==
    /\ (pc = "run_unlink" /\ pc' # pc)
       => /\ pc' = "free"
          /\ unlink_path = NULL => (fs' = fs /\ unlinked' = unlinked /\ r' = r)
          /\ unlink_path # NULL
             => \/ /\ fs' = fs \ {Entry(unlink_path, "listener")}
                   /\ unlinked' = Append(unlinked, unlink_path)
                   /\ r' = 0
                \/ /\ fs' = fs /\ unlinked' = unlinked /\ r' = -EACCES
    /\ (pc # "run_unlink" /\ unlinked' # unlinked) => (pc = "listen" /\ main_arg_force)
    /\ pc \notin {"listen", "run_unlink"} => fs' = fs
    /\ (BoundAtPath /\ pc' \in Returning /\ pc \notin Returning) => pc = "run_unlink"

\* C30, amended: the launcher calls unlink() at the end of run() exactly when
\* manager_listen_path succeeded, whatever manager_run returned, and the entry
\* is gone unless that unlink() fails; when the listener was inherited or the
\* acquisition failed, nothing is unlinked at the end, not even the entry a
\* bind() made before listen() failed
C30_Unlink == []C30_Inv /\ [][C30_Step]_vars

\* the listener was bound, manager_run failed before the fork, and the entry
\* was removed before the process ended
C30_Witness ==
    /\ pc = "done"
    /\ unlink_path # NULL
    /\ ~main_arg_force
    /\ child.state = "none"
    /\ unlinked = <<unlink_path>>
    /\ ~Exists(fs, unlink_path)

\* the event loop is running: sd_event_loop() waits or a handler is at work
InLoop == pc \in {"loop", "dispatched"}

\* while the loop runs the registry is what the bootstrap left: one service for
\* every id handed out and for every AddName call, and the listener is held
C31_Inv ==
    InLoop
    => /\ Cardinality(services) = service_ids
       /\ AddNames = service_ids
       /\ {s.id : s \in services} = {Dec(k) : k \in 1..service_ids}
       /\ fd_listen >= 0

\* no step taken while the loop runs, whatever the message and whether or not
\* its send fails, changes the registry, the id counter or the listener; the
\* registry grows only in the directory scan and shrinks only in manager_free
C31_Step ==
    /\ InLoop
       => /\ services' = services
          /\ service_ids' = service_ids
          /\ fd_listen' = fd_listen
          /\ files' = files
          /\ ctl_out' = ctl_out
    /\ services' \ services # {} => (pc = "load" /\ service_ids' = service_ids + 1)
    /\ services \ services' # {} => (pc = "free" /\ services' = {})
    /\ service_ids' # service_ids => pc = "load"

\* C31: once the event loop runs, the handling of any Activate and
\* SetActivationEnvironment signals, those for unknown ids and those whose send
\* fails included, leaves the registry, the id counter and the listener
\* descriptor as they were: services are created only during the bootstrap and
\* destroyed only at teardown
C31_Frame == []C31_Inv /\ [][C31_Step]_vars

\* the send for a registered service failed, and the registry still holds the
\* two services of the bootstrap
C31_Witness ==
    \E s \in services :
        /\ pc = "dispatched"
        /\ in_msg = Activate(s.id)
        /\ r_msg = -ENOMEM
        /\ sent = <<>>
        /\ Cardinality(services) = 2
        /\ service_ids = 2
        /\ fd_listen = SOCKET_FD

\* the ExecStart path of a StartTransientUnit call: the first element of the
\* one entry of the property
ExecStartPath(w) == w.body[3].c[1].c[2].c[1].c[1].c[1].s

\* C32: every Service that has an exec has at least one argument in it, so the
\* ExecStart path of every StartTransientUnit call that is built is the first
\* argument of the definition; a definition whose Exec key yields no argument
\* gives no such Service
C32_NonEmptyExec ==
    /\ \A s \in services : s.has_exec => (s.n_exec >= 1 /\ Len(s.exec) >= 1)
    /\ \A s \in services :
          (StartsTransient(s) /\ Len(sent) = 1)
          => (s.n_exec >= 1 /\ ExecStartPath(sent[1]) = s.exec[1])

\* what holds of the code: a Service holds the arguments of its definition, as
\* many as there are, none included; with one argument or more the ExecStart
\* path of the call is the first of them; with none the dispatch fails and
\* sends nothing or sends a call whose path is whatever lay behind the empty
\* array
C32_ExecAsLoaded ==
    /\ \A s \in services :
          /\ s.n_exec = Len(s.exec)
          /\ ~s.has_exec => s.n_exec = 0
          /\ \E i \in 1..Len(files) :
                /\ files[i].name = s.name
                /\ files[i].has_exec = s.has_exec
                /\ s.has_exec => files[i].exec = s.exec
    /\ \A s \in services :
          StartsTransient(s)
          => /\ (s.n_exec >= 1 /\ Len(sent) = 1) => ExecStartPath(sent[1]) = s.exec[1]
             /\ s.n_exec = 0
                => \/ sent = <<>> /\ r_msg < 0
                   \/ Len(sent) = 1 /\ r_msg = 0 /\ ExecStartPath(sent[1]) = GARBAGE

\* a Service with an exec of no argument was activated, and the call went out
\* with an undefined ExecStart path
C32_Witness ==
    \E s \in services :
        /\ StartsTransient(s)
        /\ s.has_exec /\ s.n_exec = 0
        /\ Len(sent) = 1
        /\ sent[1].member = "StartTransientUnit"
        /\ ExecStartPath(sent[1]) = GARBAGE

====
